---------------------------- MODULE Spec2Model ----------------------------
(***************************************************************************)
(* Model of the screenshot-based scraping pipeline of bistro-scraper       *)
(* (src/src/screenshot-scraper.js): the batch loop scrapeAllSites, the     *)
(* site run scrapeRestaurant with its progressive viewport sampling, the   *)
(* three daily-menu classifiers, the item parser and the fallback pass.    *)
(*                                                                         *)
(* Text is modelled per UTF-16 code unit: a string is a sequence of        *)
(* one-unit characters.  A character outside ASCII is written by an ASCII  *)
(* name that stands for ONE unit: "e'" = e-acute, "l~" = l-caron,          *)
(* "z~" = z-caron, "EUR" = the euro sign, and so on.                      *)
(***************************************************************************)
EXTENDS Integers, Sequences, FiniteSets, TLC

VARIABLES
  config,        \* sitesConfig.sites, the configured site list
  pc,            \* position of the single thread of control
  siteIdx,       \* scrapeAllSites: index of the current site in `sites`
  results,       \* scrapeAllSites: the `results` array
  started,       \* history: indexes of the sites whose first navigation was issued
  thrown,        \* history: indexes of the sites whose run reached its catch block
  doc,           \* the document loaded in this.page (a key of Pages, or "blank")
  scrollPos,     \* window.scrollY of the page
  bestDailyMenuViewport,   \* this.bestDailyMenuViewport
  run,           \* locals of the current scrapeRestaurant activation
  hist,          \* history of the current activation (what was done, in order)
  page,          \* this.page: the page session (its number), or null
  pageUse,       \* history: the session each site run used, the sessions closed
  messages,      \* runScrapingJob: the messages formatForDiscord returned
  notifier,      \* DiscordNotifier.sendMenuUpdates: its locals and what it has posted
  scheduler      \* MenuScraperScheduler: its fields, its cron tasks and its jobs

vars == <<config, pc, siteIdx, results, started, thrown, doc, scrollPos,
          bestDailyMenuViewport, run, hist, page, pageUse, messages, notifier, scheduler>>

-----------------------------------------------------------------------------
(* Strings                                                                 *)

\* String.prototype.toLowerCase, per code unit, on the alphabet of the model
LowerMap ==
  [c \in {"A","B","C","D","E","F","G","H","I","J","K","L","M","N","O","P","Q",
          "R","S","T","U","V","W","X","Y","Z",
          "A'","E'","I'","O'","U'","Y'","L~","S~","C~","Z~","N~","T~","D~",
          "O^","L'","R'"} |->
     CASE c = "A" -> "a" [] c = "B" -> "b" [] c = "C" -> "c" [] c = "D" -> "d"
       [] c = "E" -> "e" [] c = "F" -> "f" [] c = "G" -> "g" [] c = "H" -> "h"
       [] c = "I" -> "i" [] c = "J" -> "j" [] c = "K" -> "k" [] c = "L" -> "l"
       [] c = "M" -> "m" [] c = "N" -> "n" [] c = "O" -> "o" [] c = "P" -> "p"
       [] c = "Q" -> "q" [] c = "R" -> "r" [] c = "S" -> "s" [] c = "T" -> "t"
       [] c = "U" -> "u" [] c = "V" -> "v" [] c = "W" -> "w" [] c = "X" -> "x"
       [] c = "Y" -> "y" [] c = "Z" -> "z"
       [] c = "A'" -> "a'" [] c = "E'" -> "e'" [] c = "I'" -> "i'"
       [] c = "O'" -> "o'" [] c = "U'" -> "u'" [] c = "Y'" -> "y'"
       [] c = "L~" -> "l~" [] c = "S~" -> "s~" [] c = "C~" -> "c~"
       [] c = "Z~" -> "z~" [] c = "N~" -> "n~" [] c = "T~" -> "t~"
       [] c = "D~" -> "d~" [] c = "O^" -> "o^" [] c = "L'" -> "l'"
       [] c = "R'" -> "r'"]

toLowerCase(s) ==
  [i \in 1..Len(s) |-> IF s[i] \in DOMAIN LowerMap THEN LowerMap[s[i]] ELSE s[i]]

\* pat occurs in s at 1-based position i
OccursAt(s, pat, i) ==
  /\ i >= 1
  /\ i + Len(pat) - 1 <= Len(s)
  /\ \A k \in 1..Len(pat) : s[i + k - 1] = pat[k]

\* String.prototype.includes
includes(s, pat) == \E i \in 1..(Len(s) - Len(pat) + 1) : OccursAt(s, pat, i)

RECURSIVE Concat(_)
Concat(ss) == IF ss = <<>> THEN <<>> ELSE Head(ss) \o Concat(Tail(ss))

Digits == {"0","1","2","3","4","5","6","7","8","9"}
Whitespace == {" ", "\n", "\t"}       \* the class \s on the model's alphabet
Letters ==                            \* the class [a-z...z~] under the flag i
  {"a","b","c","d","e","f","g","h","i","j","k","l","m","n","o","p","q","r","s",
   "t","u","v","w","x","y","z",
   "a'","c~","d~","e'","i'","l'","l~","n~","o'","o^","r'","s~","t~","u'","y'",
   "z~"}

\* end of a greedy run: the least j >= i with s[j] outside cls (Len(s)+1 if none)
SkipRun(s, i, cls) ==
  CHOOSE j \in i..(Len(s) + 1) :
    /\ j = Len(s) + 1 \/ s[j] \notin cls
    /\ \A k \in i..(j - 1) : s[k] \in cls

\* String.prototype.trim
trim(s) ==
  LET a == SkipRun(s, 1, Whitespace)
      keep == {k \in 1..Len(s) : s[k] \notin Whitespace}
      b == IF keep = {} THEN 0 ELSE CHOOSE k \in keep : \A m \in keep : m <= k
  IN  IF keep = {} THEN <<>> ELSE SubSeq(s, a, b)

\* s.replace(/\s+/g, " ")
\* (each greedy run of \s becomes one space: the first unit of a run is
\* replaced by " " and the other units of the run are dropped)
collapseWhitespace(s) ==
  LET replaced == [i \in 1..Len(s) |->
                     IF s[i] \notin Whitespace THEN s[i]
                     ELSE IF i > 1 /\ s[i - 1] \in Whitespace THEN "" ELSE " "]
      kept(c) == c # ""
  IN  SelectSeq(replaced, kept)

\* String.prototype.indexOf, 0-based, -1 when absent
indexOf(s, pat) ==
  LET hits == {i \in 1..(Len(s) - Len(pat) + 1) : OccursAt(s, pat, i)} IN
    IF hits = {} THEN -1 ELSE (CHOOSE i \in hits : \A j \in hits : i <= j) - 1

\* String.prototype.substring with 0-based bounds: each bound is kept inside
\* 0..Len(s) and the two are swapped when from > to
substring(s, from, to) ==
  LET clamp(n) == IF n < 0 THEN 0 ELSE IF n > Len(s) THEN Len(s) ELSE n
      a == IF clamp(from) <= clamp(to) THEN clamp(from) ELSE clamp(to)
      b == IF clamp(from) <= clamp(to) THEN clamp(to) ELSE clamp(from)
  IN  SubSeq(s, a + 1, b)

\* pat (lower case) occurs in s at position i, ignoring case (flag i)
OccursAtIgnoreCase(s, pat, i) ==
  /\ i >= 1
  /\ i + Len(pat) - 1 <= Len(s)
  /\ \A k \in 1..Len(pat) : toLowerCase(<<s[i + k - 1]>>)[1] = pat[k]

\* the least element of a non-empty set of positions, 0 for the empty set
Leftmost(S) == IF S = {} THEN 0 ELSE CHOOSE i \in S : \A j \in S : i <= j

\* /\d+,\d+<ws>*<tail>/ anchored at i: position of the last unit of the match,
\* 0 when there is none.  ws is the class allowed before the tail (\s or none).
NumberThenAt(s, i, ws, tail) ==
  LET j == SkipRun(s, i, Digits)
      k == SkipRun(s, j + 1, Digits)
      m == SkipRun(s, k, ws)
  IN  IF /\ j > i
         /\ j <= Len(s)
         /\ s[j] = ","
         /\ k > j + 1
         /\ OccursAt(s, tail, m)
      THEN m + Len(tail) - 1
      ELSE 0

\* /\d+,\d+\s*EUR/ anchored at i
PriceAt(s, i) == NumberThenAt(s, i, Whitespace, <<"EUR">>)

\* s.replace(/<pattern>.*$/, ""): cut s at the leftmost position in starts
CutAt(s, starts) ==
  IF starts = {} THEN s ELSE SubSeq(s, 1, Leftmost(starts) - 1)

\* s.replace(/<suffix>$/, "") for a literal suffix
StripSuffix(s, suffix) ==
  IF Len(s) >= Len(suffix) /\ OccursAt(s, suffix, Len(s) - Len(suffix) + 1)
  THEN SubSeq(s, 1, Len(s) - Len(suffix))
  ELSE s

-----------------------------------------------------------------------------
(* The daily-menu classifiers                                              *)

excludePatterns ==
  { <<"o","b","l~","u'","b","e","n","e'">>,
    <<"o","b","l","u","b","e","n","e">>,
    <<"p","o","p","u","l","a'","r","n","e">>,
    <<"p","o","p","u","l","a","r">>,
    <<"f","a","v","o","r","i","t","e","s">>,
    <<"b","u","r","g","e","r"," ","c","e","n","t","r","a","l">>,
    <<"d","o","m","a'","c","a"," ","s","l","o","v","e","n","s","k","a'"," ","k","l","a","s","i","k","a">>,
    <<"h","l","a","v","n","e'"," ","j","e","d","l","a'">> }

pondelok == <<"p","o","n","d","e","l","o","k">>
utorok   == <<"u","t","o","r","o","k">>
utorak   == <<"u","t","o","r","a","k">>
streda   == <<"s","t","r","e","d","a">>
stvrtok  == <<"s~","t","v","r","t","o","k">>
piatok   == <<"p","i","a","t","o","k">>
sobota   == <<"s","o","b","o","t","a">>
nedela   == <<"n","e","d","e","l~","a">>

SlovakDays == {pondelok, utorok, streda, stvrtok, piatok, sobota, nedela}

EnglishDays ==
  { <<"m","o","n","d","a","y">>, <<"t","u","e","s","d","a","y">>,
    <<"w","e","d","n","e","s","d","a","y">>, <<"t","h","u","r","s","d","a","y">>,
    <<"f","r","i","d","a","y">>, <<"s","a","t","u","r","d","a","y">>,
    <<"s","u","n","d","a","y">> }

denneMenuAccent == <<"d","e","n","n","e'"," ","m","e","n","u">>
denneMenuPlain  == <<"d","e","n","n","e"," ","m","e","n","u">>
dailyMenuPhrase == <<"d","a","i","l","y"," ","m","e","n","u">>
poloziek        == <<"p","o","l","o","z~","i","e","k">>

\* a pattern /<phrase> (<day>|<day>|...)/i is the pair of its phrase and days
\* dailyMenuPatterns of the step visibility check and of the fallback pass
dailyMenuPatterns ==
  { [phrase |-> denneMenuAccent, days |-> SlovakDays],
    [phrase |-> dailyMenuPhrase, days |-> EnglishDays],
    [phrase |-> denneMenuPlain,  days |-> SlovakDays] }

\* dailyMenuPatterns of extractItemsFromCurrentViewport: the first pattern
\* lists "utorak" where the other two classifiers list "utorok"
dailyMenuPatternsViewport ==
  { [phrase |-> denneMenuAccent,
     days |-> (SlovakDays \ {utorok}) \cup {utorak}],
    [phrase |-> dailyMenuPhrase, days |-> EnglishDays],
    [phrase |-> denneMenuPlain,  days |-> SlovakDays] }

\* pattern.test(text) for text already lower-cased
test(pattern, text) ==
  \E d \in pattern.days : includes(text, pattern.phrase \o <<" ">> \o d)

isExcluded(text) == \E p \in excludePatterns : includes(text, p)

\* the callback of find() in the step visibility check (dailyMenuInfo) with
\* the exclusion test dropped
findCallbackInfoNoExclusion(textContent) ==
  /\ textContent # <<>>
  /\ LET text == toLowerCase(textContent) IN
       \/ \E pattern \in dailyMenuPatterns : test(pattern, text)
       \/ /\ includes(text, denneMenuAccent)
          /\ includes(text, poloziek)

\* the callback of find() in the step visibility check (dailyMenuInfo)
findCallbackInfo(textContent) ==
  /\ textContent # <<>>
  /\ LET text == toLowerCase(textContent) IN
       /\ ~isExcluded(text)
       /\ \/ \E pattern \in dailyMenuPatterns : test(pattern, text)
          \/ /\ includes(text, denneMenuAccent)
             /\ includes(text, poloziek)
             /\ ~isExcluded(text)

\* the callback of find() in extractItemsFromCurrentViewport
findCallbackViewport(textContent) ==
  /\ textContent # <<>>
  /\ LET text == toLowerCase(textContent) IN
       /\ ~isExcluded(text)
       /\ \/ \E pattern \in dailyMenuPatternsViewport : test(pattern, text)
          \/ /\ includes(text, denneMenuAccent)
             /\ includes(text, poloziek)
             /\ ~isExcluded(text)

\* the callback of find() in extractMenuFromScreenshot
findCallbackFallback(textContent) ==
  /\ textContent # <<>>
  /\ LET text == toLowerCase(textContent) IN
       /\ ~isExcluded(text)
       /\ \/ \E pattern \in dailyMenuPatterns : test(pattern, text)
          \/ /\ includes(text, denneMenuAccent)
             /\ includes(text, poloziek)
             /\ ~isExcluded(text)

-----------------------------------------------------------------------------
(* Documents                                                               *)
(* An element is [tag, region, heading, top, lis]: its tag name, whether   *)
(* it carries role="region", its own text, the page offset of its top      *)
(* edge and its li descendants [text, top, height] in document order.      *)

ViewportHeight == 1024     \* viewport: { width: 1280, height: 1024 }

LiGoulash ==
  <<"S","o","u","p"," ","1",":"," ","G","o","u","l","a","s","h"," ","3",",","5","0"," ","EUR"," ","w","i","t","h"," ","b","r","e","a","d">>
LiSchnitzel ==
  <<"S","c","h","n","i","t","z","e","l"," ","o","d"," ","5",",","2","0"," ","EUR">>
LiKava == <<"K","a'","v","a"," ","1",",","2","0"," ","EUR">>
LiCaj ==
  <<"C~","a","j"," ","1",",","2","0"," ","EUR"," ","s"," ","c","i","t","r","o'","n","o","m">>
LiSyr ==
  <<"S","y","r"," ","EUR"," ","e","x","t","r","a"," ","2",",","0","0"," ","EUR"," ","d","n","e","s">>
LiPolievka ==
  <<"G","u","l","a'","s~","o","v","a'"," ","p","o","l","i","e","v","k","a"," ","3",",","5"," ","EUR"," ","s"," ","c","h","l","e","b","o","m">>
LiHeader ==
  <<"D","e","n","n","e'"," ","m","e","n","u"," ","5"," ","p","o","l","o","z~","i","e","k">>

HStreda == <<"D","e","n","n","e'"," ","m","e","n","u"," ","s","t","r","e","d","a">>
HUtorok == <<"D","e","n","n","e'"," ","m","e","n","u"," ","u","t","o","r","o","k">>
HPiatok == <<"D","e","n","n","e'"," ","m","e","n","u"," ","p","i","a","t","o","k">>
HFriday == <<"D","a","i","l","y"," ","m","e","n","u"," ","F","r","i","d","a","y">>
HDecoy ==
  <<"O","b","l~","u'","b","e","n","e'"," ","D","e","n","n","e'"," ","m","e","n","u"," ","M","o","n","d","a","y">>
HDecoyPondelok ==
  <<"O","b","l~","u'","b","e","n","e'"," ","D","e","n","n","e'"," ","m","e","n","u"," ","p","o","n","d","e","l","o","k">>
HKontakt == <<"K","o","n","t","a","k","t">>

Li(text, top) == [text |-> text, top |-> top, height |-> 40]
El(tag, heading, top, lis) ==
  [tag |-> tag, region |-> FALSE, heading |-> heading, top |-> top, lis |-> lis]

\* Node.textContent: the element's own text, then that of its descendants
textContent(el) ==
  el.heading \o Concat([i \in 1..Len(el.lis) |-> <<"\n">> \o el.lis[i].text])

Pages ==
  [ empty0  |-> [title |-> <<>>, body |-> <<>>, height |-> 0, els |-> <<>>],
    contact |-> [title |-> <<"B","i","s","t","r","o">>, body |-> <<>>,
                 height |-> 1024,
                 els |-> << El("div", HKontakt, 0, <<>>) >>],
    two     |-> [title |-> <<"B","i","s","t","r","o">>, body |-> <<>>,
                 height |-> 2048,
                 els |-> << El("div", HPiatok, 100, << Li(LiGoulash, 150) >>),
                            El("section", HFriday, 600,
                               << Li(LiSchnitzel, 650) >>) >>],
    huge    |-> [title |-> <<"B","i","s","t","r","o">>, body |-> <<>>,
                 height |-> 5000,
                 els |-> << El("div", HKontakt, 0, <<>>) >>],
    menu    |-> [title |-> <<"B","i","s","t","r","o">>, body |-> <<>>,
                 height |-> 1025,
                 els |-> << El("div", HKontakt, 0, <<>>),
                            El("section", HStreda, 200,
                               << Li(LiHeader, 220), Li(LiGoulash, 300),
                                  Li(LiSchnitzel, 400) >>) >>],
    menuTall |-> [title |-> <<"B","i","s","t","r","o">>, body |-> <<>>,
                  height |-> 3500,
                  els |-> << El("section", HStreda, 1500,
                                << Li(LiGoulash, 1600),
                                   Li(LiSchnitzel, 1700),
                                   Li(LiPolievka, 2100) >>) >>],
    decoy   |-> [title |-> <<"B","i","s","t","r","o">>, body |-> <<>>,
                 height |-> 1024,
                 els |-> << El("section", HDecoy, 100,
                               << Li(LiGoulash, 200) >>),
                            El("div", HDecoyPondelok, 400,
                               << Li(LiSchnitzel, 500) >>) >>],
    utorok  |-> [title |-> <<"B","i","s","t","r","o">>, body |-> <<>>,
                 height |-> 1500,
                 els |-> << El("section", HUtorok, 500,
                               << Li(LiGoulash, 600),
                                  Li(LiPolievka, 1200) >>) >>],
    short   |-> [title |-> <<"B","i","s","t","r","o">>, body |-> <<>>,
                 height |-> 1024,
                 els |-> << El("section", HStreda, 100,
                               << Li(LiKava, 200), Li(LiCaj, 300),
                                  Li(LiSyr, 400) >>) >>],
    split   |-> [title |-> <<"B","i","s","t","r","o">>, body |-> <<>>,
                 height |-> 5000,
                 els |-> << El("div", HPiatok, 3100, << Li(LiGoulash, 3200) >>),
                            El("section", HStreda, 100,
                               << Li(LiKava, 200) >>) >>],
    challenge |-> [title |-> <<"J","u","s","t"," ","a"," ","m","o","m","e","n","t",".",".",".">>,
                   body |-> <<"C","h","e","c","k","i","n","g"," ","y","o","u","r"," ","b","r","o","w","s","e","r"," ","b","e","f","o","r","e"," ","a","c","c","e","s","s","i","n","g">>,
                   height |-> 1024, els |-> <<>>],
    footer  |-> [title |-> <<"B","i","s","t","r","o">>,
                 body |-> <<"P","r","o","t","e","c","t","e","d"," ","b","y"," ","C","l","o","u","d","f","l","a","r","e">>,
                 height |-> 1024,
                 els |-> << El("section", HStreda, 100,
                               << Li(LiSchnitzel, 200),
                                  Li(LiPolievka, 300) >>) >>] ]

PageIds == DOMAIN Pages

\* document.body.textContent
bodyTextContent(d) ==
  Pages[d].body \o
  Concat([i \in 1..Len(Pages[d].els) |-> <<"\n">> \o textContent(Pages[d].els[i])])

\* Array.prototype.find on a list of element indexes: the first index of the
\* list that is in accepted (the indexes the callback holds of), 0 standing
\* for undefined
find(idxs, accepted) ==
  LET hits == {i \in 1..Len(idxs) : idxs[i] \in accepted} IN
    IF hits = {} THEN 0
    ELSE idxs[CHOOSE i \in hits : \A j \in hits : i <= j]

-----------------------------------------------------------------------------
(* The item parser                                                         *)

\* name.replace(/^(Samostatna polievka:\s*|Polievka [0-9]:\s*|Menu [0-9]:\s*)/i, "")
stripNamePrefix(name) ==
  LET samostatna == <<"s","a","m","o","s","t","a","t","n","a'"," ","p","o","l","i","e","v","k","a",":">>
      polievka == <<"p","o","l","i","e","v","k","a"," ">>
      menu == <<"m","e","n","u"," ">>
      numbered(word) ==
        /\ OccursAtIgnoreCase(name, word, 1)
        /\ Len(name) >= Len(word) + 2
        /\ name[Len(word) + 1] \in Digits
        /\ name[Len(word) + 2] = ":"
      after(n) == SubSeq(name, SkipRun(name, n + 1, Whitespace), Len(name))
  IN  IF OccursAtIgnoreCase(name, samostatna, 1) THEN after(Len(samostatna))
      ELSE IF numbered(polievka) THEN after(Len(polievka) + 2)
      ELSE IF numbered(menu) THEN after(Len(menu) + 2)
      ELSE name

\* the cleaning of the raw name without the removal of a trailing "od"
cleanNameKeepsQualifier(rawName) == trim(stripNamePrefix(rawName))

\* lines 494-502 (and 694-702): the cleaning of the raw name
cleanName(rawName) ==
  LET n1 == stripNamePrefix(rawName)
      n2 == StripSuffix(n1, <<"o","d">>)
      n3 == IF Len(n2) >= 3 /\ n2[Len(n2) - 2] \in {",", "."}
            THEN StripSuffix(n2, <<n2[Len(n2) - 2], "o", "d">>) ELSE n2
      n4 == StripSuffix(n3, <<".","o","d">>)
      n5 == IF Len(n4) >= 1 /\ n4[Len(n4)] \in {",", "."}
            THEN SubSeq(n4, 1, Len(n4) - 1) ELSE n4
  IN  trim(n5)

\* cleanText.match(/(od\s+)?(\d+,\d+)\s*EUR/): the leftmost match, as
\* [od, number]; od tells whether group 1 took part.  <<>> when no match.
matchPricePattern(cleanText) ==
  LET odAt(i) ==
        /\ OccursAt(cleanText, <<"o","d">>, i)
        /\ SkipRun(cleanText, i + 2, Whitespace) > i + 2
        /\ PriceAt(cleanText, SkipRun(cleanText, i + 2, Whitespace)) # 0
      bareAt(i) == PriceAt(cleanText, i) # 0
      i0 == Leftmost({i \in 1..Len(cleanText) : odAt(i) \/ bareAt(i)})
      n0 == IF odAt(i0) THEN SkipRun(cleanText, i0 + 2, Whitespace) ELSE i0
      comma == SkipRun(cleanText, n0, Digits)
  IN  IF i0 = 0 THEN <<>>
      ELSE [od |-> odAt(i0),
            number |-> SubSeq(cleanText, n0,
                              SkipRun(cleanText, comma + 1, Digits) - 1)]

\* lines 512-519 (and 712-719): the text after the first price, cut at a
\* "popis jedla", at a second price, at a weight and at a volume
cleanDescription(rest, placeholder) ==
  LET popis == <<"p","o","p","i","s"," ","j","e","d","l","a">>
      d1 == CutAt(rest, {i \in 1..Len(rest) : OccursAtIgnoreCase(rest, popis, i)})
      d2 == CutAt(d1, {i \in 1..Len(d1) : PriceAt(d1, i) # 0})
      d3 == CutAt(d2, {i \in 1..Len(d2) : NumberThenAt(d2, i, {}, <<"k","g">>) # 0})
      d4 == CutAt(d3, {i \in 1..Len(d3) : NumberThenAt(d3, i, {}, <<"l">>) # 0})
  IN  IF trim(d4) = <<>> THEN placeholder ELSE trim(d4)

\* sectionText.match(/(Denne' menu [a-z...]+|Daily menu|Menu dn~a)/i)?.[0] || "Daily Menu"
category(sectionText) ==
  LET denne == <<"d","e","n","n","e'"," ","m","e","n","u"," ">>
      daily == <<"d","a","i","l","y"," ","m","e","n","u">>
      dna == <<"m","e","n","u"," ","d","n~","a">>
      isLetter(i) == i <= Len(sectionText)
                     /\ toLowerCase(<<sectionText[i]>>)[1] \in Letters
      denneAt(i) == OccursAtIgnoreCase(sectionText, denne, i)
                    /\ isLetter(i + Len(denne))
      dailyAt(i) == OccursAtIgnoreCase(sectionText, daily, i)
      dnaAt(i) == OccursAtIgnoreCase(sectionText, dna, i)
      i0 == Leftmost({i \in 1..Len(sectionText) :
                        denneAt(i) \/ dailyAt(i) \/ dnaAt(i)})
      lettersEnd ==
        CHOOSE j \in (i0 + Len(denne))..(Len(sectionText) + 1) :
          /\ ~isLetter(j)
          /\ \A k \in (i0 + Len(denne))..(j - 1) : isLetter(k)
  IN  IF i0 = 0 THEN <<"D","a","i","l","y"," ","M","e","n","u">>
      ELSE IF denneAt(i0) THEN SubSeq(sectionText, i0, lettersEnd - 1)
      ELSE IF dailyAt(i0) THEN SubSeq(sectionText, i0, i0 + Len(daily) - 1)
      ELSE SubSeq(sectionText, i0, i0 + Len(dna) - 1)

\* line 521 (and 725) without the test on the currency symbol
validNameNoCurrencyTest(name) == name # <<>> /\ Len(name) > 3

\* line 521 (and 725): name && name.length > 3 && !name.includes("EUR")
validName(name) == name # <<>> /\ Len(name) > 3 /\ ~includes(name, <<"EUR">>)

\* a JavaScript number and a JavaScript string, kept apart as values
JSNumber(n) == [number |-> n]
JSString(str) == [string |-> str]

\* The body of visibleItems.forEach: the items pushed for one li (none or
\* one).  minLength is 15 at a sampling step and 5 in the fallback pass,
\* placeholder the default description, viewport the value recorded as source.
parseItem(liText, sectionText, minLength, placeholder, viewport) ==
  LET \* lines 520-534: the item is pushed when its name is long enough
      pushed(name, price, description) ==
        IF validName(name)
        THEN << [name |-> name, price |-> price,
                 category |-> category(sectionText),
                 description |-> description, screenshot |-> TRUE,
                 source |-> "daily-menu-section", viewport |-> viewport] >>
        ELSE <<>>
      \* lines 504-510: the price, from the second match on cleanText
      priceOf(priceMatch2) ==
        IF priceMatch2 = <<>> THEN <<"N","/","A">>
        ELSE IF priceMatch2.od
             THEN <<"o","d"," ">> \o priceMatch2.number \o <<" ","EUR">>
             ELSE priceMatch2.number \o <<" ","EUR">>
      \* lines 491-519: name before the first price, description after it
      split(cleanText, priceMatch, firstPriceIndex) ==
        pushed(cleanName(trim(substring(cleanText, 0, firstPriceIndex))),
               priceOf(matchPricePattern(cleanText)),
               cleanDescription(
                 substring(cleanText, firstPriceIndex + Len(priceMatch),
                           Len(cleanText)),
                 placeholder))
      \* lines 486-491: priceMatch[0] and firstPriceIndex
      matched(cleanText, priceStarts) ==
        IF priceStarts = {} THEN <<>>
        ELSE split(cleanText,
                   SubSeq(cleanText, Leftmost(priceStarts),
                          PriceAt(cleanText, Leftmost(priceStarts))),
                   indexOf(cleanText,
                           SubSeq(cleanText, Leftmost(priceStarts),
                                  PriceAt(cleanText, Leftmost(priceStarts)))))
      \* line 484: cleanText, and the starts of /\d+,\d+\s*EUR/ in it
      cleaned(cleanText) ==
        matched(cleanText,
                {i \in 1..Len(cleanText) : PriceAt(cleanText, i) # 0})
      \* lines 473-482: the filter on the trimmed text of the li
      filtered(itemText) ==
        IF \/ Len(itemText) < minLength
           \/ includes(itemText, <<"D","e","n","n","e'"," ","m","e","n","u">>)
           \/ includes(itemText, poloziek)
           \/ includes(itemText, <<"Z","o","b","r","a","z"," ","v","i","a","c">>)
           \/ ~includes(itemText, <<"EUR">>)
        THEN <<>>
        ELSE cleaned(trim(collapseWhitespace(itemText)))
  IN  filtered(trim(liText))

-----------------------------------------------------------------------------
(* What page.evaluate computes in the document                              *)

CandidateTags == <<"section", "div", "article", "main">>

\* the indexes of a set of elements of d, in document order
RECURSIVE inDocumentOrder(_)
inDocumentOrder(S) ==
  IF S = {} THEN <<>>
  ELSE LET i == CHOOSE x \in S : \A y \in S : x <= y
       IN  <<i>> \o inDocumentOrder(S \ {i})

\* document.querySelectorAll('section, div, article, main, [role="region"]')
querySelectorAllCandidates(d) ==
  inDocumentOrder({i \in 1..Len(Pages[d].els) :
                     \/ Pages[d].els[i].tag \in {"section", "div", "article", "main"}
                     \/ Pages[d].els[i].region})

\* document.querySelectorAll(tag) for the k-th entry of
\* ["section", "div", "article", "main", '[role="region"]']
querySelectorAllTag(d, k) ==
  inDocumentOrder({i \in 1..Len(Pages[d].els) :
                     IF k <= 4 THEN Pages[d].els[i].tag = CandidateTags[k]
                     ELSE Pages[d].els[i].region})

\* getBoundingClientRect().top of something at page offset top
rectTop(top, scroll) == top - scroll

inViewport(top, scroll) ==
  rectTop(top, scroll) >= 0 /\ rectTop(top, scroll) <= ViewportHeight

\* lines 244-280: the element chosen by the step visibility check (0: none)
dailyMenuSectionInfo(d) ==
  find(querySelectorAllCandidates(d),
       {i \in 1..Len(Pages[d].els) : findCallbackInfo(textContent(Pages[d].els[i]))})

\* lines 445-455: the first entry left by filter(Boolean), 0 for null
firstFound(perTag) ==
  LET dailyMenuSelectors == SelectSeq(perTag, LAMBDA i : i # 0)
  IN  IF dailyMenuSelectors = <<>> THEN 0 ELSE dailyMenuSelectors[1]

\* lines 406-455: the element chosen by extractItemsFromCurrentViewport
dailyMenuSectionViewport(d) ==
  firstFound([k \in 1..5 |->
    find(querySelectorAllTag(d, k),
         {i \in 1..Len(Pages[d].els) :
            findCallbackViewport(textContent(Pages[d].els[i]))})])

\* lines 577-630: the element chosen by extractMenuFromScreenshot
dailyMenuSectionFallback(d) ==
  firstFound([k \in 1..5 |->
    find(querySelectorAllTag(d, k),
         {i \in 1..Len(Pages[d].els) :
            findCallbackFallback(textContent(Pages[d].els[i]))})])

\* the sections each classifier picks, computed once per document
SectionInfoOf     == [d \in PageIds |-> dailyMenuSectionInfo(d)]
SectionViewportOf == [d \in PageIds |-> dailyMenuSectionViewport(d)]
SectionFallbackOf == [d \in PageIds |-> dailyMenuSectionFallback(d)]

\* lines 243-315: the value of dailyMenuInfo
dailyMenuInfo(d, scroll, currentStep) ==
  LET sec == SectionInfoOf[d]
      el == Pages[d].els[sec]
      visibleItems ==
        {i \in 1..Len(el.lis) :
           /\ inViewport(el.lis[i].top, scroll)
           /\ includes(trim(el.lis[i].text), <<"EUR">>)
           /\ Len(trim(el.lis[i].text)) > 20}
  IN  IF sec # 0 /\ inViewport(el.top, scroll)
      THEN [visible |-> TRUE, totalItems |-> Len(el.lis),
            visibleItems |-> Cardinality(visibleItems),
            sampleText |-> substring(textContent(el), 0, 200),
            stepNumber |-> currentStep]
      ELSE [visible |-> FALSE, totalItems |-> 0, visibleItems |-> 0,
            stepNumber |-> currentStep]

\* the li of element sec that pass the filter of lines 460-467 / 649-656
visibleLis(d, sec, scroll) ==
  SelectSeq(Pages[d].els[sec].lis,
            LAMBDA li : inViewport(li.top, scroll) /\ li.height > 10)

\* lines 401-544: the value of extractItemsFromCurrentViewport
extractItemsFromCurrentViewport(d, scroll, viewportNumber) ==
  LET sec == SectionViewportOf[d]
      lis == visibleLis(d, sec, scroll)
  IN  IF sec = 0 THEN <<>>
      ELSE Concat([i \in 1..Len(lis) |->
             parseItem(lis[i].text, textContent(Pages[d].els[sec]), 15,
                       <<"D","a","i","l","y"," ","m","e","n","u"," ","i","t","e","m">>,
                       JSNumber(viewportNumber))])

\* lines 819-827: what extractMenuFromScreenshot returns when it catches
\* (the description goes on with the screenshot path)
manualReviewItem ==
  [name |-> <<"S","c","r","e","e","n","s","h","o","t"," ","A","n","a","l","y","s","i","s"," ","R","e","q","u","i","r","e","d">>,
   price |-> <<"N","/","A">>,
   category |-> <<"M","a","n","u","a","l"," ","R","e","v","i","e","w">>,
   description |-> <<"S","c","r","e","e","n","s","h","o","t"," ","s","a","v","e","d"," ","a","t"," ">>,
   screenshot |-> TRUE]

\* the fallback pass reporting the manual-review item when no section matches
extractFallbackItemsOrReview(d, scroll, bestViewport) ==
  LET sec == SectionFallbackOf[d]
      lis == visibleLis(d, sec, scroll)
      viewport == IF bestViewport # <<>> THEN JSNumber(bestViewport.stepNumber)
                  ELSE JSString("unknown")
  IN  IF sec = 0 THEN << manualReviewItem >>
      ELSE Concat([i \in 1..Len(lis) |->
             parseItem(lis[i].text, textContent(Pages[d].els[sec]), 5,
                       <<"D","e","n","n","e"," ","m","e","n","u"," ","i","t","e","m">>,
                       viewport)])

\* lines 561-788: the items extracted in the page by extractMenuFromScreenshot
extractFallbackItems(d, scroll, bestViewport) ==
  LET sec == SectionFallbackOf[d]
      lis == visibleLis(d, sec, scroll)
      viewport == IF bestViewport # <<>> THEN JSNumber(bestViewport.stepNumber)
                  ELSE JSString("unknown")
  IN  IF sec = 0 THEN <<>>
      ELSE Concat([i \in 1..Len(lis) |->
             parseItem(lis[i].text, textContent(Pages[d].els[sec]), 5,
                       <<"D","e","n","n","e"," ","m","e","n","u"," ","i","t","e","m">>,
                       viewport)])

\* window.scrollTo(0, y): the browser keeps the offset inside the document
scrollTo(d, y) ==
  LET maxScroll == IF Pages[d].height > ViewportHeight
                   THEN Pages[d].height - ViewportHeight ELSE 0
  IN  IF y < 0 THEN 0 ELSE IF y > maxScroll THEN maxScroll ELSE y

\* lines 847-863: the first evaluate of handleCloudflareProtection
cloudflareDetected(d) ==
  LET title == toLowerCase(Pages[d].title)
      bodyText == toLowerCase(bodyTextContent(d))
      indicators ==
        { <<"v","e","r","i","f","y","i","n","g"," ","y","o","u"," ","a","r","e"," ","h","u","m","a","n">>,
          <<"c","h","e","c","k","i","n","g"," ","y","o","u","r"," ","b","r","o","w","s","e","r">>,
          <<"c","l","o","u","d","f","l","a","r","e">>,
          <<"p","l","e","a","s","e"," ","w","a","i","t"," ","w","h","i","l","e"," ","w","e"," ","c","h","e","c","k"," ","y","o","u","r"," ","b","r","o","w","s","e","r">>,
          <<"t","h","i","s"," ","m","a","y"," ","t","a","k","e"," ","a"," ","f","e","w"," ","s","e","c","o","n","d","s">> }
  IN  \E indicator \in indicators :
        includes(title, indicator) \/ includes(bodyText, indicator)

\* lines 868-874: the second evaluate of handleCloudflareProtection
stillProtected(d) ==
  LET bodyText == toLowerCase(bodyTextContent(d)) IN
    \/ includes(bodyText, <<"v","e","r","i","f","y","i","n","g"," ","y","o","u"," ","a","r","e"," ","h","u","m","a","n">>)
    \/ includes(bodyText, <<"c","h","e","c","k","i","n","g"," ","y","o","u","r"," ","b","r","o","w","s","e","r">>)

CloudflareDetectedOf == [d \in PageIds |-> cloudflareDetected(d)]
StillProtectedOf     == [d \in PageIds |-> stillProtected(d)]

-----------------------------------------------------------------------------
(* Configuration                                                           *)

MaxSites == 2      \* longest configured site list explored

CentralPub == [name |-> "Central Pub", url |-> "https://central.example",
               enabled |-> TRUE, customScript |-> FALSE, waitForSelector |-> TRUE]
Bistro     == [name |-> "Bistro", url |-> "https://bistro.example",
               enabled |-> TRUE, customScript |-> TRUE, waitForSelector |-> FALSE]
Closed     == [name |-> "Closed", url |-> "https://closed.example",
               enabled |-> FALSE, customScript |-> FALSE, waitForSelector |-> FALSE]

SiteCatalog == {CentralPub, Bistro, Closed}

Configs == UNION {[1..n -> SiteCatalog] : n \in 0..MaxSites}

\* Config.getEnabledSites
getEnabledSites(cfg) == SelectSeq(cfg, LAMBDA site : site.enabled)

sites == getEnabledSites(config)
site == sites[siteIdx]

\* documents a navigation, and a navigation repeated after a challenge, may load
NavPages == PageIds
RenavPages == {"challenge", "menu", "empty0"}

-----------------------------------------------------------------------------
(* State                                                                   *)

null == <<>>      \* null, and a local not yet assigned

\* (toGo belongs to the callback of the synthetic scroll pass: what its
\* totalHeight is short of the scrollHeight of the page)
NoRun == [step |-> 0, scrollSteps |-> 0, viewportHeight |-> 0, totalHeight |-> 0,
          screenshots |-> <<>>, allDailyMenuItems |-> <<>>, menuData |-> null,
          error |-> "", siteData |-> null, toGo |-> 0]

\* the history of one activation: log is the sequence of page operations
\* [op, arg]; stepItems the viewportItems of each step; navs the number of
\* page.goto calls; clicks the number of consent clicks and script the
\* outcome of the custom script, both kept until the sampling phase begins;
\* waits the positions of the log entries that a settle wait followed;
\* challenge what the first evaluate of handleCloudflareProtection returned
\* ("detected", "clear", or "error" when an evaluate rejected), kept until
\* the consent dismissal begins
NoHist == [log |-> <<>>, stepItems |-> <<>>, navs |-> 0, clicks |-> 0,
           script |-> "none", waits |-> {}, challenge |-> "none"]

Log(op, arg) == [hist EXCEPT !.log = Append(@, [op |-> op, arg |-> arg])]

\* an operation followed by page.waitForTimeout(2000)
LogThenWait(op, arg) ==
  [hist EXCEPT !.log = Append(@, [op |-> op, arg |-> arg]),
               !.waits = @ \cup {Len(hist.log) + 1}]

\* scheduler.js lines 9-17: the scheduler as its constructor leaves it.  The
\* constructor does not set isJobRunning: the field is absent (undefined)
\* until the first job sets it.  created is the number of cron tasks start
\* has made, live the tasks that are started and not stopped, jobs the
\* calls of runScrapingJob in the order they were made, lastCall the last
\* of start, stop and shutdown that was called and how it ended, and
\* scheduleValid whether cron.validate accepts config.scrapeSchedule.
NewScheduler == [isRunning |-> FALSE, scheduledTask |-> null, created |-> 0, live |-> {},
                 jobs |-> <<>>, lastCall |-> "none", scheduleValid |-> TRUE]

\* discord.js line 20 and the loop variable of line 22, before the loop;
\* posts is the history of the calls of axios.post
NoNotifier == [i |-> 0, allMessagesSent |-> TRUE, posts |-> <<>>, cleaned |-> FALSE]

Init ==
  /\ config \in Configs
  /\ pc = "initialize"
  /\ siteIdx = 0
  /\ results = <<>>
  /\ started = {}
  /\ thrown = {}
  /\ doc = "blank"
  /\ scrollPos = 0
  /\ bestDailyMenuViewport = null
  /\ run = NoRun
  /\ hist = NoHist
  /\ page = null
  /\ pageUse = [served |-> <<>>, closed |-> {}]
  /\ messages = null
  /\ notifier = NoNotifier
  /\ scheduler = NewScheduler

\* the try of lines 67-391 ending before the sampling phase
enclosingCatchBeforeSampling(position) ==
  IF position \in {"goto", "waitForSelector"} THEN "catch" ELSE "escaped"

\* lines 67 and 391: the try block spans the whole body of scrapeRestaurant,
\* so a rejection at any position is handled by its catch
enclosingCatch(position) == "catch"

\* an awaited call rejected: control passes to the enclosing catch
Throw(message) ==
  /\ pc' = enclosingCatch(pc)
  /\ run' = [run EXCEPT !.error = message]

-----------------------------------------------------------------------------
(* The session: initialize and close                                       *)

\* the n-th page session created since the process started
Session(n) == <<"page", n>>

\* lines 19-64 (called once, from MenuScraperScheduler.initialize, line 30):
\* the browser is launched and this.page is the one page of its context.  A
\* launch that fails is caught: initialize returns false, which the scheduler
\* does not look at, and this.page stays unset.
Initialize ==
  /\ pc = "initialize"
  /\ page' \in {Session(1), null}
  /\ pc' = "scrapeAllSites"
  /\ UNCHANGED <<config, siteIdx, results, started, thrown, doc, scrollPos,
                 bestDailyMenuViewport, run, hist, pageUse, messages, notifier, scheduler>>

\* lines 831-843 (called from MenuScraperScheduler.shutdown, line 170, taken
\* here once the job is over): this.page is closed if there is one
Close ==
  /\ pc \in {"done", "formatted"}
  /\ pageUse' = [pageUse EXCEPT !.closed = IF page # null THEN @ \cup {page} ELSE @]
  /\ pc' = "closed"
  /\ UNCHANGED <<config, siteIdx, results, started, thrown, doc, scrollPos,
                 bestDailyMenuViewport, run, hist, page, messages, notifier, scheduler>>

-----------------------------------------------------------------------------
(* scrapeAllSites                                                          *)

\* lines 908-918
ScrapeAllSites ==
  /\ pc = "scrapeAllSites"
  /\ pc' = IF Len(sites) = 0 THEN "done" ELSE "loop"
  /\ UNCHANGED <<page, pageUse, messages, notifier, scheduler, config, siteIdx, results, started, thrown, doc, scrollPos,
                 bestDailyMenuViewport, run, hist>>

\* the for-of loop awaits each scrapeRestaurant: the next iteration starts
\* when control is back at the loop head
AtLoopHeadAnywhere(p) == p \notin {"scrapeAllSites", "done"}
AtLoopHead(p) == p = "loop"

loopStopsAfterFailure(idx, n, res) ==
  idx < n /\ (res = <<>> \/ res[Len(res)].success)

\* line 920: for (const site of sites)
loopContinues(idx, n, res) == idx < n

\* the best viewport of the previous run kept
bestKeptAtStart(best) == best

\* line 68: this.bestDailyMenuViewport = null
bestAtStart(best) == null

\* lines 920-923 and 66-70: next site, or return results; entering
\* scrapeRestaurant clears bestDailyMenuViewport
NextSite ==
  /\ AtLoopHead(pc)
  /\ IF loopContinues(siteIdx, Len(sites), results)
     THEN /\ siteIdx' = siteIdx + 1
          /\ pc' = "goto"
          /\ bestDailyMenuViewport' = bestAtStart(bestDailyMenuViewport)
          /\ run' = NoRun
          /\ hist' = NoHist
     ELSE /\ pc' = "done"
          /\ UNCHANGED <<siteIdx, bestDailyMenuViewport, run, hist>>
  /\ UNCHANGED <<page, pageUse, messages, notifier, scheduler, config, results, started, thrown, doc, scrollPos>>

\* lines 925-945: the result of the site is formatted and pushed.  A field
\* whose value is undefined is left out of the record.
formatResult(s, siteData) ==
  LET opt(f, g) == IF g \in DOMAIN siteData THEN f :> siteData[g] ELSE <<>>
      base == [name |-> s.name, url |-> s.url, success |-> siteData.success]
  IN  base @@ opt("scrapedAt", "scrapedAt") @@ opt("itemCount", "itemCount")
           @@ [menuData |-> opt("items", "menuData") @@ opt("totalCount", "itemCount")]
           @@ opt("screenshotPath", "screenshotPath")
           @@ (IF ~siteData.success THEN opt("error", "error") ELSE <<>>)

PushResult ==
  /\ pc = "push"
  /\ results' = Append(results, formatResult(site, run.siteData))
  /\ pc' = "loop"
  /\ run' = NoRun
  /\ hist' = NoHist
  /\ UNCHANGED <<page, pageUse, messages, notifier, scheduler, config, siteIdx, started, thrown, doc, scrollPos,
                 bestDailyMenuViewport>>

-----------------------------------------------------------------------------
(* scrapeRestaurant                                                        *)

\* lines 72-75: the first navigation, on this.page.  Without a page (the
\* launch failed) the call this.page.goto itself raises a TypeError.
Goto ==
  /\ pc = "goto"
  /\ started' = started \cup {siteIdx}
  /\ pageUse' = [pageUse EXCEPT !.served = Append(@, page)]
  /\ \/ /\ page # null
        /\ \E d \in NavPages :
             /\ doc' = d
             /\ scrollPos' = 0
             /\ pc' = "cloudflare"
             /\ run' = run
        /\ hist' = [Log("goto", 0) EXCEPT !.navs = @ + 1]
     \/ /\ page # null
        /\ Throw("NavigationTimeout")
        /\ hist' = [Log("goto", 0) EXCEPT !.navs = @ + 1]
        /\ UNCHANGED <<doc, scrollPos>>
     \/ /\ page = null
        /\ Throw("TypeError")
        /\ UNCHANGED <<doc, scrollPos, hist>>
  /\ UNCHANGED <<page, messages, notifier, scheduler, config, siteIdx, results, thrown,
                 bestDailyMenuViewport>>

\* documents the loaded one may have turned into after a settle interval
SettledPages(d) == IF d = "challenge" THEN {"challenge", "menu"} ELSE {d}

\* lines 77-82 and 845-887: handleCloudflareProtection; an evaluate that
\* rejects is caught there and reported as "not protected"
HandleCloudflareProtection ==
  /\ pc = "cloudflare"
  /\ \/ /\ CloudflareDetectedOf[doc]
        /\ \E d \in SettledPages(doc) :
             /\ doc' = d
             /\ pc' = IF StillProtectedOf[d] THEN "regoto" ELSE "cookies"
        /\ hist' = [hist EXCEPT !.challenge = "detected"]
     \/ /\ ~CloudflareDetectedOf[doc]
        /\ doc' = doc
        /\ pc' = "cookies"
        /\ hist' = [hist EXCEPT !.challenge = "clear"]
     \/ /\ doc' = doc
        /\ pc' = "cookies"
        /\ hist' = [hist EXCEPT !.challenge = "error"]
  /\ UNCHANGED <<page, pageUse, messages, notifier, scheduler, config, siteIdx, results, started, thrown, scrollPos,
                 bestDailyMenuViewport, run>>

\* lines 82-94: the verification wait, which is outside any local handler,
\* then the navigation repeated after a challenge; the failure of that
\* navigation is logged and swallowed
ReGoto ==
  /\ pc = "regoto"
  /\ \/ /\ \E d \in RenavPages : doc' = d /\ scrollPos' = 0
        /\ hist' = [Log("goto", 1) EXCEPT !.navs = @ + 1]
        /\ pc' = "cookies"
        /\ run' = run
     \/ /\ UNCHANGED <<doc, scrollPos>>
        /\ hist' = [Log("goto", 1) EXCEPT !.navs = @ + 1]
        /\ pc' = "cookies"
        /\ run' = run
     \/ /\ Throw("TargetClosed")
        /\ UNCHANGED <<doc, scrollPos, hist>>
  /\ UNCHANGED <<page, pageUse, messages, notifier, scheduler, config, siteIdx, results, started, thrown, bestDailyMenuViewport>>

\* the 13 entries of cookieSelectors are numbered 1..13 in list order; these
\* are the sets of selectors whose button is visible that the model explores
VisibleSelectorChoices == {{}, {1}, {3, 8}}

\* lines 116-129: the selectors whose button gets clicked, in order: every
\* visible one up to and including the first whose click does not reject
RECURSIVE clickedSelectors(_, _)
clickedSelectors(visible, failing) ==
  IF visible = {} THEN <<>>
  ELSE LET k == CHOOSE x \in visible : \A y \in visible : x <= y IN
         IF k \in failing
         THEN <<k>> \o clickedSelectors(visible \ {k}, failing)
         ELSE <<k>>

\* lines 96-152: consent dismissal.  failing are the selectors whose click
\* rejects, dialogButtons the number of buttons found in dialogs, modals and
\* popups.  Every rejection is swallowed.
CookieBanner ==
  /\ pc = "cookies"
  /\ \E visible \in VisibleSelectorChoices, dialogButtons \in 0..1 :
     \E failing \in SUBSET visible :
       LET clicked == clickedSelectors(visible, failing)
           cookieAccepted == clicked # <<>> /\ clicked[Len(clicked)] \notin failing
           dialogClicks == IF ~cookieAccepted /\ dialogButtons > 0 THEN 1 ELSE 0
       IN  hist' = [hist EXCEPT !.clicks = @ + Len(clicked) + dialogClicks,
                                !.challenge = "none"]
  /\ pc' = "script"
  /\ UNCHANGED <<page, pageUse, messages, notifier, scheduler, config, siteIdx, results, started, thrown, doc, scrollPos,
                 bestDailyMenuViewport, run>>

\* the custom script evaluated without a handler of its own
scriptCatchMissing(position) == enclosingCatch(position)

\* lines 155-160: the try around the custom script; its catch logs the
\* error and control goes on after it
scriptCatch(position) == "waitForSelector"

\* lines 154-161: the site's custom script; a rejection is logged and swallowed
CustomScript ==
  /\ pc = "script"
  /\ \/ /\ site.customScript
        /\ hist' = [hist EXCEPT !.script = "done"]
        /\ pc' = "waitForSelector"
     \/ /\ site.customScript
        /\ hist' = [hist EXCEPT !.script = "threw"]
        /\ pc' = scriptCatch(pc)
     \/ /\ ~site.customScript
        /\ hist' = hist
        /\ pc' = "waitForSelector"
  /\ UNCHANGED <<page, pageUse, messages, notifier, scheduler, config, siteIdx, results, started, thrown, doc, scrollPos,
                 bestDailyMenuViewport, run>>

\* the timeout of the selector wait caught and logged where it happens
selectorTimeoutSwallowed(position) == "preScroll"

\* lines 163-167: the selector wait has no try of its own
selectorTimeout(position) == enclosingCatch(position)

\* lines 163-167: waitForSelector rejects when the selector does not show up
\* within its timeout
WaitForSelector ==
  /\ pc = "waitForSelector"
  /\ \/ /\ pc' = "preScroll"
        /\ run' = run
     \/ /\ site.waitForSelector
        /\ pc' = selectorTimeout(pc)
        /\ run' = [run EXCEPT !.error = "TimeoutError"]
  /\ UNCHANGED <<page, pageUse, messages, notifier, scheduler, config, siteIdx, results, started, thrown, doc, scrollPos,
                 bestDailyMenuViewport, hist>>

\* lines 169-194: the synthetic scroll pass ends at the top; when it rejects
\* the page is left wherever the pass had got to
PreScroll ==
  /\ pc = "preScroll"
  /\ scrollPos' \in {0, scrollTo(doc, Pages[doc].height)}
  /\ pc' = "measure"
  /\ UNCHANGED <<page, pageUse, messages, notifier, scheduler, config, siteIdx, results, started, thrown, doc,
                 bestDailyMenuViewport, run, hist>>

\* Math.ceil(totalHeight / viewportHeight) for totalHeight >= 0 < viewportHeight
ceilDiv(totalHeight, viewportHeight) ==
  (totalHeight + viewportHeight - 1) \div viewportHeight

MaxSteps == 3       \* Math.min(scrollSteps, 3)

min(a, b) == IF a < b THEN a ELSE b

NoStepCap(scrollSteps) == scrollSteps
\* the bound of the step loop
stepBound(scrollSteps) == min(scrollSteps, MaxSteps)

afterStepLoopNoScroll == "fullScreenshot"
\* lines 351-354: the statement that follows the step loop
afterStepLoop == "scrollTop"

\* lines 196-219: the locals of the sampling phase, then back to the top
Measure ==
  /\ pc = "measure"
  /\ \/ /\ run' = [run EXCEPT !.viewportHeight = ViewportHeight,
                              !.totalHeight = Pages[doc].height,
                              !.scrollSteps = ceilDiv(Pages[doc].height, ViewportHeight),
                              !.step = 0]
        /\ scrollPos' = scrollTo(doc, 0)
        /\ hist' = [LogThenWait("scrollTo", 0) EXCEPT !.clicks = 0, !.script = "none"]
        /\ pc' = IF 0 < stepBound(ceilDiv(Pages[doc].height, ViewportHeight))
                 THEN "stepScroll" ELSE afterStepLoop
     \/ /\ Throw("TargetClosed")
        /\ UNCHANGED <<scrollPos, hist>>
  /\ UNCHANGED <<page, pageUse, messages, notifier, scheduler, config, siteIdx, results, started, thrown, doc, bestDailyMenuViewport>>

UNCHANGED_batch == UNCHANGED <<page, pageUse, messages, notifier, scheduler, config, siteIdx, results, started, thrown>>

\* the step going from its scroll straight to the visibility check
afterStepScrollSkipsScreenshot == "stepInfo"

\* lines 225-231: the settle wait is followed by the screenshot of the step
afterStepScroll == "stepScreenshot"

\* lines 221-225: scroll to the offset of the step, then the settle wait
StepScroll ==
  /\ pc = "stepScroll"
  /\ \/ /\ scrollPos' = scrollTo(doc, run.step * run.viewportHeight)
        /\ hist' = LogThenWait("scrollTo", run.step * run.viewportHeight)
        /\ pc' = afterStepScroll
        /\ run' = run
     \/ /\ Throw("TargetClosed")
        /\ UNCHANGED <<scrollPos, hist>>
  /\ UNCHANGED <<doc, bestDailyMenuViewport>>
  /\ UNCHANGED_batch

\* lines 227-241: the screenshot of the step
StepScreenshot ==
  /\ pc = "stepScreenshot"
  /\ \/ /\ run' = [run EXCEPT !.screenshots = Append(@, <<site.name, run.step + 1>>)]
        /\ hist' = Log("screenshot", run.step + 1)
        /\ pc' = "stepInfo"
     \/ /\ Throw("TargetClosed")
        /\ hist' = hist
  /\ UNCHANGED <<doc, scrollPos, bestDailyMenuViewport>>
  /\ UNCHANGED_batch

\* the best viewport replaced also by a step with as many visible items
newBestOnTie(best, info) ==
  best = null \/ info.visibleItems >= best.visibleItems

\* lines 324-328: whether the step replaces the best viewport
newBest(best, info) ==
  best = null \/ info.visibleItems > best.visibleItems

\* the item extraction of the step run only when the section was visible
afterStepInfoOnlyWhenVisible(visible) ==
  IF visible THEN "stepExtract" ELSE "stepSkipped"

\* lines 335-337: extractItemsFromCurrentViewport is called after the
\* visibility check whatever dailyMenuInfo.visible was
afterStepInfo(visible) == "stepExtract"

\* lines 243-335: the visibility check of the step and the best viewport
StepInfo ==
  /\ pc = "stepInfo"
  /\ \/ LET info == dailyMenuInfo(doc, scrollPos, run.step + 1) IN
          /\ bestDailyMenuViewport' =
               IF info.visible /\ newBest(bestDailyMenuViewport, info)
               THEN [info EXCEPT !.stepNumber = run.step + 1]
                      @@ [scrollY |-> run.step * run.viewportHeight]
               ELSE bestDailyMenuViewport
          /\ hist' = Log("classify", SectionInfoOf[doc])
          /\ pc' = afterStepInfo(info.visible)
          /\ run' = run
     \/ /\ Throw("TargetClosed")
        /\ UNCHANGED <<bestDailyMenuViewport, hist>>
  /\ UNCHANGED <<doc, scrollPos>>
  /\ UNCHANGED_batch

\* line 342 with the items of the step replacing the list
replaceItems(all, viewportItems) == viewportItems

\* line 342: allDailyMenuItems.push(...viewportItems)
pushItems(all, viewportItems) == all \o viewportItems

\* lines 337-351: the items of the step, and the loop's step++ and test
StepExtract ==
  /\ pc = "stepExtract"
  /\ \/ \E viewportItems \in
              {extractItemsFromCurrentViewport(doc, scrollPos, run.step + 1)} :
          /\ run' = [run EXCEPT
                       !.allDailyMenuItems =
                          IF Len(viewportItems) > 0 THEN pushItems(@, viewportItems)
                          ELSE @,
                       !.step = @ + 1]
          /\ hist' = [Log("extract", SectionViewportOf[doc])
                        EXCEPT !.stepItems = Append(@, viewportItems)]
          /\ pc' = IF run.step + 1 < stepBound(run.scrollSteps)
                   THEN "stepScroll" ELSE afterStepLoop
     \/ /\ Throw("TargetClosed")
        /\ hist' = hist
  /\ UNCHANGED <<doc, scrollPos, bestDailyMenuViewport>>
  /\ UNCHANGED_batch

\* lines 353-354: back to the top after the loop, then the settle wait
ScrollTop ==
  /\ pc = "scrollTop"
  /\ \/ /\ scrollPos' = scrollTo(doc, 0)
        /\ hist' = LogThenWait("scrollTo", 0)
        /\ pc' = "fullScreenshot"
        /\ run' = run
     \/ /\ Throw("TargetClosed")
        /\ UNCHANGED <<scrollPos, hist>>
  /\ UNCHANGED <<doc, bestDailyMenuViewport>>
  /\ UNCHANGED_batch

\* lines 371-373: the fallback pass is skipped when the steps gave items
needsFallback(allDailyMenuItems) == ~(Len(allDailyMenuItems) > 0)

\* lines 357-373: the full-page screenshot; menuData is the items of the
\* steps when there are any
FullScreenshot ==
  /\ pc = "fullScreenshot"
  /\ \/ /\ run' = [run EXCEPT
                     !.screenshots = Append(@, <<site.name, 0>>),
                     !.menuData = IF needsFallback(run.allDailyMenuItems)
                                  THEN @ ELSE run.allDailyMenuItems]
        /\ hist' = Log("screenshot", 0)
        /\ pc' = IF needsFallback(run.allDailyMenuItems)
                 THEN "fallback" ELSE "return"
     \/ /\ Throw("TargetClosed")
        /\ hist' = hist
  /\ UNCHANGED <<doc, scrollPos, bestDailyMenuViewport>>
  /\ UNCHANGED_batch

\* line 550: whether the fallback pass scrolls to the best viewport first
anchorsAtBest(s, bestViewport) ==
  bestViewport # null /\ s.name = "Central Pub"

\* lines 374-378 and 546-829: extractMenuFromScreenshot.  Each of its three
\* awaited calls may reject; it then returns the manual-review item.
ExtractMenuFromScreenshot ==
  /\ pc = "fallback"
  /\ LET anchored == anchorsAtBest(site, bestDailyMenuViewport)
         pos == IF anchored THEN scrollTo(doc, bestDailyMenuViewport.scrollY)
                ELSE scrollPos
         h1 == IF anchored
               THEN Append(hist.log, [op |-> "scrollTo",
                                      arg |-> bestDailyMenuViewport.scrollY])
               ELSE hist.log
     IN
       \/ /\ scrollPos' = pos
          /\ run' = [run EXCEPT !.menuData =
                       extractFallbackItems(doc, pos, bestDailyMenuViewport)]
          /\ hist' = [hist EXCEPT !.log =
                        Append(h1, [op |-> "fallback", arg |-> SectionFallbackOf[doc]])]
       \/ /\ scrollPos' \in {scrollPos, pos}
          /\ run' = [run EXCEPT !.menuData = << manualReviewItem >>]
          /\ hist' = [hist EXCEPT !.log =
                        Append(@, [op |-> "fallbackFailed", arg |-> 0])]
  /\ pc' = "return"
  /\ UNCHANGED <<doc, bestDailyMenuViewport>>
  /\ UNCHANGED_batch

\* lines 380-390: the record of a successful run
Return ==
  /\ pc = "return"
  /\ run' = [run EXCEPT !.siteData =
               [success |-> TRUE, restaurant |-> site.name, url |-> site.url,
                scrapedAt |-> "now", screenshotPath |-> <<site.name, 0>>,
                menuData |-> run.menuData, itemCount |-> Len(run.menuData)]]
  /\ pc' = "push"
  /\ UNCHANGED <<doc, scrollPos, bestDailyMenuViewport, hist>>
  /\ UNCHANGED_batch

\* lines 391-398: the record of a failed run
Catch ==
  /\ pc = "catch"
  /\ run' = [run EXCEPT !.siteData =
               [success |-> FALSE, restaurant |-> site.name, error |-> run.error]]
  /\ pc' = "push"
  /\ thrown' = thrown \cup {siteIdx}
  /\ UNCHANGED <<page, pageUse, messages, notifier, scheduler, config, siteIdx, results, started, doc, scrollPos,
                 bestDailyMenuViewport, hist>>

-----------------------------------------------------------------------------
(* MenuFormatter (src/src/formatter.js)                                    *)
(* A message is [embeds |-> <<embed>>]; the timestamp, colour and footer   *)
(* of an embed are left out.  A title is the tuple of its parts.           *)

maxMessageLength == 2000

\* getRestaurantEmoji: no site of the model has an emoji of its own
getRestaurantEmoji(name) == "default"

\* formatMenuItem: "**name**\n" then the price and a blank line, or "\n"
formatMenuItem(item) ==
  <<"*","*">> \o item.name \o <<"*","*","\n">> \o
  (IF item.price # <<>> /\ item.price # <<"N","/","A">> /\ trim(item.price) # <<>>
   THEN item.price \o <<"\n","\n">>
   ELSE <<"\n">>)

\* lines 141-151: the first category whose name the item's name or
\* description includes, whatever the case; 0 when there is none
categoryOf(item, categories) ==
  Leftmost({c \in 1..Len(categories) :
              \/ includes(toLowerCase(item.name), toLowerCase(categories[c]))
              \/ /\ "description" \in DOMAIN item
                 /\ item.description # <<>>
                 /\ includes(toLowerCase(item.description), toLowerCase(categories[c]))})

\* lines 131-165: groupItemsByCategory.  The groups in the order of
\* Object.entries: "uncategorized" first, then the categories in their
\* order; an empty group is deleted.  categories is [] when the caller
\* passes undefined.
groupItemsByCategory(items, categories) ==
  LET group(c) == SelectSeq(items, LAMBDA item : categoryOf(item, categories) = c)
      all == << [category |-> "uncategorized", items |-> group(0)] >>
             \o [c \in 1..Len(categories) |-> [category |-> categories[c], items |-> group(c)]]
  IN  SelectSeq(all, LAMBDA g : g.items # <<>>)

\* lines 86-110: the loop over the groups from group k on.  fields is
\* embed.fields, pushes the number of messages pushed so far.
RECURSIVE splitFields(_, _, _, _, _)
splitFields(groups, k, fields, currentFieldLength, pushes) ==
  IF k > Len(groups) THEN [fields |-> fields, pushes |-> pushes]
  ELSE LET itemsText ==
             Concat([i \in 1..Len(groups[k].items) |->
                       formatMenuItem(groups[k].items[i])])
           fieldData ==
             [name |-> IF groups[k].category = "uncategorized" THEN "zero-width space"
                       ELSE groups[k].category,
              value |-> IF itemsText = <<>>
                        THEN <<"N","o"," ","i","t","e","m","s"," ","a","v","a","i","l","a","b","l","e">>
                        ELSE itemsText,
              items |-> groups[k].items,
              inline |-> FALSE]
           full == currentFieldLength + Len(fieldData.value) > maxMessageLength - 500
       IN  splitFields(groups, k + 1,
                       Append(IF full THEN <<>> ELSE fields, fieldData),
                       (IF full THEN 0 ELSE currentFieldLength) + Len(fieldData.value),
                       IF full THEN pushes + 1 ELSE pushes)

\* formatSiteMenu, for a result whose menuData carries an items array.  Every
\* message pushed holds the same embed object, so each shows the fields the
\* embed has when the function returns.
formatSiteMenu(siteResult) ==
  IF siteResult.menuData.items = <<>>
  THEN << [embeds |-> << [title |-> <<"orange circle", siteResult.name, " - daily menu">>,
                          description |-> "No daily menu available today",
                          url |-> siteResult.url] >>] >>
  ELSE LET split == splitFields(groupItemsByCategory(
                                  siteResult.menuData.items,
                                  IF "categories" \in DOMAIN siteResult.menuData
                                  THEN siteResult.menuData.categories ELSE <<>>),
                                1, <<>>, 0, 0)
           embed == [title |-> <<getRestaurantEmoji(siteResult.name),
                                 siteResult.name, " - daily menu">>,
                     url |-> siteResult.url,
                     description |-> <<Len(siteResult.menuData.items), " items available">>,
                     fields |-> split.fields]
           pushes == split.pushes + (IF Len(split.fields) > 0 THEN 1 ELSE 0)
       IN  [i \in 1..pushes |-> [embeds |-> <<embed>>]]

\* formatErrorSummary naming the first failed site only
formatErrorSummaryFirstOnly(failedSites) ==
  [embeds |-> << [title |-> <<"red circle", "Scraping Errors">>,
                  description |->
                    << <<"bullet", failedSites[1].name, ": ", failedSites[1].error>> >>] >>]

\* formatErrorSummary: one line per failed site
formatErrorSummary(failedSites) ==
  [embeds |-> << [title |-> <<"red circle", "Scraping Errors">>,
                  description |->
                    [i \in 1..Len(failedSites) |->
                       <<"bullet", failedSites[i].name, ": ", failedSites[i].error>>]] >>]

\* formatForDiscord
formatForDiscord(scrapingResults) ==
  LET successfulSites == SelectSeq(scrapingResults, LAMBDA result : result.success)
      failedSites == SelectSeq(scrapingResults, LAMBDA result : ~result.success)
  IN  Concat([i \in 1..Len(successfulSites) |-> formatSiteMenu(successfulSites[i])])
      \o (IF Len(failedSites) > 0 THEN << formatErrorSummary(failedSites) >> ELSE <<>>)
      \o (IF Len(successfulSites) = 0 /\ Len(failedSites) > 0
          THEN << [embeds |-> << [title |-> <<"cross", "No Menus Available">>,
                                  description |-> "All sites failed to load. Please check the logs for more details."] >>] >>
          ELSE <<>>)

\* scheduler.js lines 96-105: runScrapingJob formats the results of a batch
\* that is not empty
FormatForDiscord ==
  /\ pc = "done"
  /\ Len(results) > 0
  /\ messages' = formatForDiscord(results)
  /\ pc' = "formatted"
  /\ UNCHANGED <<config, siteIdx, results, started, thrown, doc, scrollPos,
                 bestDailyMenuViewport, run, hist, page, pageUse, notifier, scheduler>>

Next ==
  \/ Initialize
  \/ Close
  \/ FormatForDiscord
  \/ ScrapeAllSites
  \/ NextSite
  \/ PushResult
  \/ Goto
  \/ HandleCloudflareProtection
  \/ ReGoto
  \/ CookieBanner
  \/ CustomScript
  \/ WaitForSelector
  \/ PreScroll
  \/ Measure
  \/ StepScroll
  \/ StepScreenshot
  \/ StepInfo
  \/ StepExtract
  \/ ScrollTop
  \/ FullScreenshot
  \/ ExtractMenuFromScreenshot
  \/ Return
  \/ Catch

Spec == Init /\ [][Next]_vars

-----------------------------------------------------------------------------
(* The synthetic scroll pass, tick by tick (lines 169-194)                 *)
(* Spec takes the pass as one step, PreScroll.  Here the callback of its   *)
(* setInterval is followed on a page that may add content when it is       *)
(* scrolled.  The test of the callback compares totalHeight with           *)
(* scrollHeight, so the pass is followed through their difference, toGo;   *)
(* the absolute offsets of a page that keeps growing have no bound.  The   *)
(* window position is read by nothing during the pass and is not followed. *)

distance == 100        \* const distance = 100
Growths == {0, 200}    \* what one scrollBy may add to the height of the page
MaxToGo == 5200        \* largest distance to the bottom explored

\* the pass begins on the page the first site has loaded
ScrollInit ==
  /\ config = << Bistro >>
  /\ pc = "preScroll"
  /\ siteIdx = 1
  /\ results = <<>>
  /\ started = {1}
  /\ thrown = {}
  /\ doc \in NavPages
  /\ scrollPos = 0
  /\ bestDailyMenuViewport = null
  /\ run = [NoRun EXCEPT !.toGo = Pages[doc].height]
  /\ hist = [NoHist EXCEPT !.log = << [op |-> "goto", arg |-> 0] >>, !.navs = 1]
  /\ page = Session(1)
  /\ pageUse = [served |-> << Session(1) >>, closed |-> {}]
  /\ messages = null
  /\ notifier = NoNotifier
  /\ scheduler = NewScheduler

\* lines 175-185: one call of the interval callback.  scrollHeight is read,
\* the window is scrolled by distance (the page may grow by g) and
\* totalHeight is advanced; the pass resolves when totalHeight has reached
\* the scrollHeight that was read.
ScrollTick ==
  /\ pc = "preScroll"
  /\ \/ /\ distance >= run.toGo
        /\ run' = [run EXCEPT !.toGo = 0]
        /\ scrollPos' = 0
        /\ pc' = "preScrollSettle"
     \/ /\ distance < run.toGo
        /\ \E g \in Growths :
             /\ run.toGo - distance + g <= MaxToGo
             /\ run' = [run EXCEPT !.toGo = @ - distance + g]
        /\ UNCHANGED <<scrollPos, pc>>
  /\ UNCHANGED <<page, pageUse, messages, notifier, scheduler, config, siteIdx, results, started, thrown, doc,
                 bestDailyMenuViewport, hist>>

\* lines 189-190: the settle wait after a pass that has resolved
ScrollSettle ==
  /\ pc = "preScrollSettle"
  /\ pc' = "measure"
  /\ UNCHANGED <<page, pageUse, messages, notifier, scheduler, config, siteIdx, results, started, thrown, doc,
                 scrollPos, bestDailyMenuViewport, run, hist>>

\* lines 191-193: the evaluate is rejected (the page went away under it);
\* the catch logs the failure and the run goes on where the pass had got to
ScrollReject ==
  /\ pc = "preScroll"
  /\ scrollPos' \in {0, scrollTo(doc, Pages[doc].height)}
  /\ pc' = "measure"
  /\ run' = [run EXCEPT !.toGo = 0]
  /\ UNCHANGED <<page, pageUse, messages, notifier, scheduler, config, siteIdx, results, started, thrown, doc,
                 bestDailyMenuViewport, hist>>

ScrollNext == ScrollTick \/ ScrollSettle \/ ScrollReject

\* the interval timer keeps firing and an awaited promise that has settled
\* is resumed; nothing makes the evaluate reject
ScrollSpec == ScrollInit /\ [][ScrollNext]_vars /\ WF_vars(ScrollTick) /\ WF_vars(ScrollSettle)

-----------------------------------------------------------------------------
(* DiscordNotifier (src/src/discord.js)                                    *)
(* sendMenuUpdates on its own, on a list of messages it is handed.  An     *)
(* answer of the webhook is [status |-> s, headers |-> h]; the answer that *)
(* never comes (the connection fails) is NoAnswer.  An Error is the record *)
(* of its own properties: one made by `new Error(text)` has a message and  *)
(* nothing else.                                                           *)

rateLimitDelay == 1000   \* this.rateLimitDelay
MaxMessages == 3         \* longest list of messages handed to sendMenuUpdates

\* the list formatForDiscord makes of n sites without a daily menu
Outbox(n) ==
  [k \in 1..n |-> [embeds |-> << [title |-> <<"orange circle", <<"Site", k>>, " - daily menu">>,
                                  description |-> "No daily menu available today"] >>]]

NoHeaders == [date |-> "now"]
NoAnswer == [request |-> TRUE]
Answers == {[status |-> 204, headers |-> NoHeaders],
            [status |-> 200, headers |-> NoHeaders],
            [status |-> 429, headers |-> [date |-> "now", retryAfter |-> 2]],
            [status |-> 429, headers |-> NoHeaders],
            [status |-> 500, headers |-> NoHeaders],
            NoAnswer}

\* axios.post with the default validateStatus: a status of 200..299 resolves
\* with the response, any other rejects with an error that carries it, and
\* a request without an answer rejects with an error that carries the request
axiosPost(answer) ==
  IF "status" \in DOMAIN answer
  THEN IF answer.status \in 200..299
       THEN [resolved |-> answer]
       ELSE [rejected |-> [message |-> <<"Request failed with status code ", answer.status>>,
                           response |-> answer]]
  ELSE [rejected |-> [message |-> "Network Error", request |-> TRUE]]

\* sendMessage letting the error of axios through as it is
sendMessageRethrowing(answer) ==
  LET posted == axiosPost(answer)
  IN  IF "resolved" \in DOMAIN posted
      THEN IF posted.resolved.status = 204
           THEN [returned |-> TRUE]
           ELSE [thrown |-> [message |-> <<"Unexpected response status: ",
                                            posted.resolved.status>>]]
      ELSE [thrown |-> posted.rejected]

\* lines 48-71: sendMessage returns true on a 204 and throws a new Error
\* with a text of its own in every other case
sendMessage(answer) ==
  LET posted == axiosPost(answer)
      inner == IF "resolved" \in DOMAIN posted
               THEN IF posted.resolved.status = 204
                    THEN [returned |-> TRUE]
                    ELSE [thrown |-> [message |-> <<"Unexpected response status: ",
                                                     posted.resolved.status>>]]
               ELSE [thrown |-> posted.rejected]
  IN  IF "returned" \in DOMAIN inner
      THEN inner
      ELSE IF "response" \in DOMAIN inner.thrown
           THEN [thrown |-> [message |-> <<"Discord API error: ", inner.thrown.response.status>>]]
           ELSE IF "request" \in DOMAIN inner.thrown
                THEN [thrown |-> [message |-> "Failed to connect to Discord webhook"]]
                ELSE [thrown |-> [message |-> <<"Request setup error: ", inner.thrown.message>>]]

\* line 34: error.response?.status === 429
isRateLimited(error) == "response" \in DOMAIN error /\ error.response.status = 429

\* line 35: error.response.headers['retry-after'] || 5
retryAfter(error) ==
  IF "retryAfter" \in DOMAIN error.response.headers
  THEN error.response.headers.retryAfter
  ELSE 5

\* lines 23-40: the body of the loop for the message at index n.i, when the
\* webhook gives `answer`: the notifier at the next test of the loop.  A
\* post is recorded with the delay that was awaited after it.
afterSend(n, answer, count) ==
  LET sent == sendMessage(answer)
  IN  IF "returned" \in DOMAIN sent
      THEN [n EXCEPT !.posts = Append(@, [message |-> n.i, answer |-> answer,
                                          delay |-> IF n.i < count - 1 THEN rateLimitDelay ELSE 0]),
                     !.i = @ + 1]
      ELSE IF isRateLimited(sent.thrown)
           THEN [n EXCEPT !.allMessagesSent = FALSE,
                          !.posts = Append(@, [message |-> n.i, answer |-> answer,
                                               delay |-> retryAfter(sent.thrown) * 1000])]
           ELSE [n EXCEPT !.allMessagesSent = FALSE,
                          !.posts = Append(@, [message |-> n.i, answer |-> answer, delay |-> 0]),
                          !.i = @ + 1]

\* sendMenuUpdates is called with a list of messages, or with none
NotifyInit ==
  /\ config = <<>>
  /\ pc = "sendMenuUpdates"
  /\ siteIdx = 0
  /\ results = <<>>
  /\ started = {}
  /\ thrown = {}
  /\ doc = "blank"
  /\ scrollPos = 0
  /\ bestDailyMenuViewport = null
  /\ run = NoRun
  /\ hist = NoHist
  /\ page = null
  /\ pageUse = [served |-> <<>>, closed |-> {}]
  /\ messages \in {Outbox(n) : n \in 0..MaxMessages}
  /\ notifier = NoNotifier
  /\ scheduler = NewScheduler

UNCHANGED_scraper ==
  UNCHANGED <<config, siteIdx, results, started, thrown, doc, scrollPos,
              bestDailyMenuViewport, run, hist, page, pageUse, messages, scheduler>>

\* lines 13-20
SendMenuUpdates ==
  /\ pc = "sendMenuUpdates"
  /\ \/ /\ messages = null \/ Len(messages) = 0
        /\ pc' = "notified"
     \/ /\ messages # null /\ Len(messages) > 0
        /\ pc' = "sending"
  /\ notifier' = NoNotifier
  /\ UNCHANGED_scraper

\* lines 22-41: one turn of the loop
SendNext ==
  /\ pc = "sending"
  /\ notifier.i < Len(messages)
  /\ \E answer \in Answers : notifier' = afterSend(notifier, answer, Len(messages))
  /\ pc' = pc
  /\ UNCHANGED_scraper

\* the screenshots cleaned up whatever the sends did
cleanupAlways(allMessagesSent) == TRUE

\* line 43: cleanupScreenshots is called if allMessagesSent
cleanupCalled(allMessagesSent) == allMessagesSent

\* lines 43-46: after the loop
SendDone ==
  /\ pc = "sending"
  /\ notifier.i >= Len(messages)
  /\ notifier' = [notifier EXCEPT !.cleaned = cleanupCalled(notifier.allMessagesSent)]
  /\ pc' = "notified"
  /\ UNCHANGED_scraper

NotifyNext == SendMenuUpdates \/ SendNext \/ SendDone

NotifySpec == NotifyInit /\ [][NotifyNext]_vars

\* every await of sendMenuUpdates settles: axios.post has a timeout of 10 s
\* (line 54) and a delay is a timer
NotifyLiveSpec == NotifyInit /\ [][NotifyNext]_vars /\ WF_vars(NotifyNext)

-----------------------------------------------------------------------------
(* MenuScraperScheduler (src/src/scheduler.js)                             *)
(* start, stop, shutdown and runScrapingJob.  JavaScript runs a call up to *)
(* its first await without interruption, so a step is a call up to its     *)
(* first await, or the resumption of a job after an await up to the next.  *)
(* What the awaited calls of a job do (scrapeAllSites, sendMenuUpdates,    *)
(* cleanupOldLogs, sendErrorNotification) is followed by the other         *)
(* specifications; here each resolves or rejects.                          *)

MaxTriggers == 3    \* calls of runScrapingJob explored
MaxTasks == 2       \* cron tasks created by start explored

\* the n-th cron task created by start
Task(n) == <<"task", n>>

\* obj.field = value, on an object whose field may be absent
SetField(obj, field, value) == (field :> value) @@ obj

\* a job: where its activation is, and the way it returned
Job(at, via) == [at |-> at, via |-> via]

\* the check of the running flag left out
alreadyRunningNever(s) == FALSE

\* line 85: if (this.isJobRunning)
alreadyRunning(s) == "isJobRunning" \in DOMAIN s /\ s.isJobRunning

\* the flag released only at the end of the try block
releasedAfterTry(s, via) ==
  IF via = "completed" THEN SetField(s, "isJobRunning", FALSE) ELSE s

\* lines 123-125: finally { this.isJobRunning = false }
released(s, via) == SetField(s, "isJobRunning", FALSE)

\* start going on to schedule a task on a scheduler that is running
startRefusedNever(s) == FALSE

\* line 41: if (this.isRunning)
startRefused(s) == s.isRunning

\* the scheduler with the activation k of runScrapingJob at `at`
JobAt(s, k, at) == [s EXCEPT !.jobs[k] = Job(at, "")]

\* the activation k returns through the finally block
JobReturns(s, k, via) == released([s EXCEPT !.jobs[k] = Job("returned", via)], via)

\* lines 84-96: runScrapingJob up to its first await.  A call made while the
\* flag is set returns at once; any other sets the flag and calls
\* scrapeAllSites.
runScrapingJob(s) ==
  IF alreadyRunning(s)
  THEN [s EXCEPT !.jobs = Append(@, Job("skipped", ""))]
  ELSE SetField([s EXCEPT !.jobs = Append(@, Job("scrapeAllSites", ""))],
                "isJobRunning", TRUE)

\* the scheduler is constructed; its schedule is a cron expression that
\* cron.validate accepts, or one it does not
SchedulerInit ==
  /\ config = <<>>
  /\ pc = "initialize"
  /\ siteIdx = 0
  /\ results = <<>>
  /\ started = {}
  /\ thrown = {}
  /\ doc = "blank"
  /\ scrollPos = 0
  /\ bestDailyMenuViewport = null
  /\ run = NoRun
  /\ hist = NoHist
  /\ page = null
  /\ pageUse = [served |-> <<>>, closed |-> {}]
  /\ messages = null
  /\ notifier = NoNotifier
  /\ scheduler \in {[NewScheduler EXCEPT !.scheduleValid = v] : v \in BOOLEAN}

UNCHANGED_job ==
  UNCHANGED <<config, pc, siteIdx, results, started, thrown, doc, scrollPos,
              bestDailyMenuViewport, run, hist, page, pageUse, messages, notifier>>

\* lines 40-73: start
Start ==
  /\ \/ /\ startRefused(scheduler)
        /\ scheduler' = [scheduler EXCEPT !.lastCall = "start refused"]
     \/ /\ ~startRefused(scheduler)
        /\ ~scheduler.scheduleValid
        /\ scheduler' = [scheduler EXCEPT !.lastCall = "start threw"]
     \/ /\ ~startRefused(scheduler)
        /\ scheduler.scheduleValid
        /\ scheduler.created < MaxTasks
        /\ scheduler' = [scheduler EXCEPT
                           !.scheduledTask = Task(scheduler.created + 1),
                           !.created = @ + 1,
                           !.live = @ \cup {Task(scheduler.created + 1)},
                           !.isRunning = TRUE,
                           !.lastCall = "started"]
  /\ UNCHANGED_job

\* lines 75-82: stop
stop(s) ==
  [s EXCEPT !.live = IF s.scheduledTask # null THEN @ \ {s.scheduledTask} ELSE @,
            !.scheduledTask = null,
            !.isRunning = FALSE,
            !.lastCall = "stopped"]

Stop ==
  /\ scheduler' = stop(scheduler)
  /\ UNCHANGED_job

\* lines 164-175: shutdown stops the scheduler and closes the scraper, if
\* there is one (this.scraper is set by initialize, which has not run here)
Shutdown ==
  /\ scheduler' = [stop(scheduler) EXCEPT !.lastCall = "shutdown"]
  /\ UNCHANGED_job

\* lines 55-59: a started task fires and its callback calls runScrapingJob
CronTick ==
  /\ scheduler.live # {}
  /\ Len(scheduler.jobs) < MaxTriggers
  /\ scheduler' = runScrapingJob(scheduler)
  /\ UNCHANGED_job

\* lines 129-132: runOnce
RunOnce ==
  /\ Len(scheduler.jobs) < MaxTriggers
  /\ scheduler' = runScrapingJob(scheduler)
  /\ UNCHANGED_job

\* lines 96-109: scrapeAllSites has settled.  No result: return; results:
\* they are logged and formatted and sendMenuUpdates is called; a rejection,
\* or an exception while formatting: the catch block calls
\* sendErrorNotification.
JobScraped ==
  /\ \E k \in 1..Len(scheduler.jobs) :
       /\ scheduler.jobs[k].at = "scrapeAllSites"
       /\ \/ scheduler' = JobReturns(scheduler, k, "empty")
          \/ scheduler' = JobAt(scheduler, k, "sendMenuUpdates")
          \/ scheduler' = JobAt(scheduler, k, "sendErrorNotification")
  /\ UNCHANGED_job

\* lines 109-117: sendMenuUpdates has settled
JobSent ==
  /\ \E k \in 1..Len(scheduler.jobs) :
       /\ scheduler.jobs[k].at = "sendMenuUpdates"
       /\ \/ scheduler' = JobAt(scheduler, k, "cleanupOldLogs")
          \/ scheduler' = JobAt(scheduler, k, "sendErrorNotification")
  /\ UNCHANGED_job

\* lines 117-125: cleanupOldLogs has settled
JobLogsCleaned ==
  /\ \E k \in 1..Len(scheduler.jobs) :
       /\ scheduler.jobs[k].at = "cleanupOldLogs"
       /\ \/ scheduler' = JobReturns(scheduler, k, "completed")
          \/ scheduler' = JobAt(scheduler, k, "sendErrorNotification")
  /\ UNCHANGED_job

\* lines 118-125: sendErrorNotification has settled (it catches what its
\* own send throws)
JobNotified ==
  /\ \E k \in 1..Len(scheduler.jobs) :
       /\ scheduler.jobs[k].at = "sendErrorNotification"
       /\ scheduler' = JobReturns(scheduler, k, "error")
  /\ UNCHANGED_job

SchedulerNext ==
  \/ Start
  \/ Stop
  \/ Shutdown
  \/ CronTick
  \/ RunOnce
  \/ JobScraped
  \/ JobSent
  \/ JobLogsCleaned
  \/ JobNotified

SchedulerSpec == SchedulerInit /\ [][SchedulerNext]_vars

-----------------------------------------------------------------------------
(* formatForDiscord on its own, on the result of one site whose items are  *)
(* long enough for formatSiteMenu to reach its length limit                *)

LongName == 800     \* length of the padding of a long item name
MaxItems == 3       \* longest item list formatted

Pad(n) == [i \in 1..n |-> "x"]

\* an item as the extraction makes it
MenuItem(name) ==
  [name |-> name, price |-> <<"4", ",", "5", "0", " ", "EUR">>,
   description |-> <<"D", "a", "i", "l", "y", " ", "m", "e", "n", "u", " ", "i", "t", "e", "m">>]

ItemPool ==
  {MenuItem(<<"S", "o", "u", "p", " ">> \o Pad(LongName)),
   MenuItem(<<"M", "a", "i", "n", " ">> \o Pad(LongName)),
   MenuItem(<<"R", "e", "z", "e", "n", " ">> \o Pad(LongName)),
   MenuItem(<<"C", "a", "k", "e">>)}

\* menuData of a result: its items, with or without a list of categories
MenuDatas ==
  LET lists == UNION {[1..n -> ItemPool] : n \in 1..MaxItems}
  IN  {[items |-> its, totalCount |-> Len(its)] : its \in lists}
      \cup {[items |-> its, totalCount |-> Len(its),
             categories |-> << <<"S", "o", "u", "p">>, <<"M", "a", "i", "n">> >>] : its \in lists}

\* scrapeAllSites has returned the successful result of one site
FormatInit ==
  /\ config = << Bistro >>
  /\ pc = "done"
  /\ siteIdx = 1
  /\ \E menuData \in MenuDatas :
       results = << [name |-> Bistro.name, url |-> Bistro.url, success |-> TRUE,
                     scrapedAt |-> "now", itemCount |-> Len(menuData.items),
                     menuData |-> menuData, screenshotPath |-> <<Bistro.name, 0>>] >>
  /\ started = {1}
  /\ thrown = {}
  /\ doc = "menu"
  /\ scrollPos = 0
  /\ bestDailyMenuViewport = null
  /\ run = NoRun
  /\ hist = NoHist
  /\ page = Session(1)
  /\ pageUse = [served |-> << Session(1) >>, closed |-> {}]
  /\ messages = null
  /\ notifier = NoNotifier
  /\ scheduler = NewScheduler

FormatNext == FormatForDiscord

FormatSpec == FormatInit /\ [][FormatNext]_vars

-----------------------------------------------------------------------------
(* Properties                                                              *)

\* an operation of the given name is in the log
Logged(op) == \E i \in 1..Len(hist.log) : hist.log[i].op = op

\* the run of the current site has ended and its record is about to be pushed
RunEnded == pc = "push"
RunSucceeded == pc = "push" /\ run.siteData.success

\* C1: scrapeRestaurant never raises: whichever call of a site run rejects,
\* no exception escapes the run, and the run ends by returning a record with
\* success = false and the message of the error.
C1_NeverRaises ==
  /\ pc # "escaped"
  /\ pc = "catch" => run.error # ""
  /\ RunEnded /\ run.error # "" =>
       /\ run.siteData.success = FALSE
       /\ run.siteData.error = run.error
       /\ run.siteData.restaurant = site.name

\* a sampling call rejected and the run ended with the failure record
C1_Witness ==
  /\ RunEnded
  /\ run.error = "TargetClosed"
  /\ Logged("extract")
  /\ ~run.siteData.success

\* C2: every failed site result delivered by the batch run has success =
\* false, an error message, items = [] and an item count of 0.
C2_FailedResultHasEmptyItems ==
  \A i \in 1..Len(results) :
    ~results[i].success =>
      /\ "error" \in DOMAIN results[i]
      /\ "items" \in DOMAIN results[i].menuData
      /\ results[i].menuData.items = <<>>
      /\ "itemCount" \in DOMAIN results[i]
      /\ results[i].itemCount = 0

\* C3: scrapeAllSites reports exactly one result per enabled site, in
\* configuration order; the result of a site is a failure exactly when the
\* run of that site threw, and every later site is still attempted.
C3_OneResultPerSite ==
  /\ Len(results) <= Len(sites)
  /\ \A i \in 1..Len(results) :
       /\ results[i].name = sites[i].name
       /\ results[i].url = sites[i].url
       /\ results[i].success = (i \notin thrown)
  /\ pc = "done" =>
       /\ Len(results) = Len(sites)
       /\ started = 1..Len(sites)

\* the batch is over, its first site failed and its second was still reported
C3_Witness ==
  /\ pc = "done"
  /\ Len(results) = 2
  /\ ~results[1].success
  /\ results[2].success

\* C4: site runs never overlap: the first navigation of site k+1 is issued
\* only after the result of site k has been pushed.
C4_RunsNeverOverlap ==
  \A k \in started :
    /\ k <= Len(results) + 1
    /\ k = Len(results) + 1 => k = siteIdx /\ pc \notin {"loop", "done"}

\* the second site is running after the first one's caught failure
C4_Witness ==
  /\ 2 \in started
  /\ Len(results) = 1
  /\ ~results[1].success
  /\ pc = "cloudflare"

\* the number of viewports a page of the given height spans, at most three
ExpectedSteps ==
  [d \in PageIds |->
     LET h == Pages[d].height
         n == CHOOSE k \in 0..h : k * ViewportHeight >= h
                                  /\ \A m \in 0..(k - 1) : m * ViewportHeight < h
     IN  IF n > 3 THEN 3 ELSE n]

\* the step numbers of the step screenshots taken so far
StepShots == SelectSeq(hist.log, LAMBDA e : e.op = "screenshot" /\ e.arg > 0)

\* C5: the number of sampling steps is min(ceil(totalPageHeight /
\* viewportHeight), 3), never more than 3, and step i (0-based) is sampled at
\* scroll offset i * viewportHeight.
C5_StepCount ==
  /\ Len(hist.stepItems) <= 3
  /\ Len(StepShots) <= ExpectedSteps[IF doc = "blank" THEN "empty0" ELSE doc]
  /\ \A i \in 1..Len(StepShots) : StepShots[i].arg = i
  /\ \A i \in 2..Len(hist.log) :
       hist.log[i].op = "screenshot" /\ hist.log[i].arg > 0 =>
         hist.log[i - 1] = [op |-> "scrollTo",
                            arg |-> (hist.log[i].arg - 1) * ViewportHeight]
  /\ pc \in {"scrollTop", "fullScreenshot", "fallback", "return"} =>
       /\ Len(hist.stepItems) = ExpectedSteps[doc]
       /\ Len(StepShots) = ExpectedSteps[doc]

\* a 3500px page was sampled in exactly three steps, the third at 2048
C5_Witness ==
  /\ pc = "scrollTop"
  /\ Pages[doc].height = 3500
  /\ Len(hist.stepItems) = 3
  /\ [op |-> "scrollTo", arg |-> 2048] \in {hist.log[i] : i \in 1..Len(hist.log)}

\* the run reached the sampling phase: its locals were set (lines 196-219)
ReachedSampling == run.viewportHeight # 0

FullPageShots == SelectSeq(hist.log, LAMBDA e : e.op = "screenshot" /\ e.arg = 0)

NothingMatched ==
  /\ Logged("fallback")
  /\ \A i \in 1..Len(hist.log) :
       hist.log[i].op \in {"classify", "extract", "fallback"} => hist.log[i].arg = 0

\* C7: if no section matches at any sampled step and the fallback pass also
\* matches nothing, the site result has success = true and an empty item
\* list, not a failure.
C7_NoMenuIsSuccess ==
  /\ pc = "return" /\ NothingMatched => run.menuData = <<>>
  /\ RunEnded /\ NothingMatched =>
       /\ run.siteData.success
       /\ run.siteData.menuData = <<>>
       /\ run.siteData.itemCount = 0
       /\ formatResult(site, run.siteData).menuData.items = <<>>

\* a three-step page without any daily-menu section ended as "no menu"
C7_Witness ==
  /\ RunEnded
  /\ NothingMatched
  /\ Len(hist.stepItems) = 3
  /\ run.siteData.success

FallbackRan == Logged("fallback") \/ Logged("fallbackFailed")

\* C8: the item list of a successful run is the concatenation, in step order
\* and without deduplication, of the items of the steps whenever that is
\* non-empty; the fallback pass runs if and only if it is empty.
C8_Concatenation ==
  pc = "return" \/ RunSucceeded =>
    /\ Concat(hist.stepItems) # <<>> => run.menuData = Concat(hist.stepItems)
    /\ FallbackRan <=> Concat(hist.stepItems) = <<>>
    /\ RunSucceeded => run.siteData.menuData = run.menuData

\* two overlapping steps gave the same two items each: four items reported
C8_Witness ==
  /\ RunSucceeded
  /\ Len(hist.stepItems) = 2
  /\ hist.stepItems[1] # <<>>
  /\ Len(hist.stepItems[1]) = Len(hist.stepItems[2])
  /\ \A k \in 1..Len(hist.stepItems[1]) :
       hist.stepItems[1][k].name = hist.stepItems[2][k].name
  /\ Len(run.siteData.menuData) = 2 * Len(hist.stepItems[1])
  /\ ~FallbackRan

\* C9: whenever the fallback pass runs and a best viewport was recorded, the
\* page has been scrolled to the best viewport's offset when the fallback
\* extraction is performed, for every site.
C9_FallbackAnchored ==
  /\ pc = "return"
  /\ Logged("fallback")
  /\ bestDailyMenuViewport # null
  => scrollPos = scrollTo(doc, bestDailyMenuViewport.scrollY)

\* the elements of each document whose text contains an exclusion phrase
ExcludedElementsOf ==
  [d \in PageIds |->
     {k \in 1..Len(Pages[d].els) :
        \E p \in excludePatterns :
          includes(toLowerCase(textContent(Pages[d].els[k])), p)}]

\* C10: in each of the three classifiers exclusion wins over inclusion: an
\* element whose text contains an exclusion phrase is never selected as the
\* daily-menu section, even when it also matches an inclusion pattern.
C10_ExclusionWins ==
  \A i \in 1..Len(hist.log) :
    hist.log[i].op \in {"classify", "extract", "fallback"} /\ hist.log[i].arg # 0 =>
      hist.log[i].arg \notin ExcludedElementsOf[doc]

\* the three classifiers ran on a page whose only candidates carry an
\* exclusion phrase next to a daily-menu phrase with a weekday, and chose none
C10_Witness ==
  /\ pc = "return"
  /\ doc = "decoy"
  /\ \E el \in {Pages[doc].els[k] : k \in 1..Len(Pages[doc].els)} :
       /\ isExcluded(toLowerCase(textContent(el)))
       /\ \E pattern \in dailyMenuPatterns : test(pattern, toLowerCase(textContent(el)))
  /\ Logged("classify") /\ Logged("extract") /\ Logged("fallback")
  /\ \A i \in 1..Len(hist.log) :
       hist.log[i].op \in {"classify", "extract", "fallback"} => hist.log[i].arg = 0

\* the elements of each document that the callback of the step visibility
\* check, and that of the per-step item extraction, hold of
AcceptedInfoOf ==
  [d \in PageIds |->
     {k \in 1..Len(Pages[d].els) : findCallbackInfo(textContent(Pages[d].els[k]))}]
AcceptedViewportOf ==
  [d \in PageIds |->
     {k \in 1..Len(Pages[d].els) : findCallbackViewport(textContent(Pages[d].els[k]))}]

\* the elements of each document whose text has a daily-menu phrase followed
\* by a weekday name of its language, and no exclusion phrase
WeekdayElementsOf ==
  [d \in PageIds |->
     {k \in 1..Len(Pages[d].els) :
        LET text == toLowerCase(textContent(Pages[d].els[k])) IN
          /\ ~isExcluded(text)
          /\ \/ \E day \in SlovakDays :
                  \/ includes(text, denneMenuAccent \o <<" ">> \o day)
                  \/ includes(text, denneMenuPlain \o <<" ">> \o day)
             \/ \E day \in EnglishDays :
                  includes(text, dailyMenuPhrase \o <<" ">> \o day)}]

\* C11: for every weekday name of both languages, an element whose text has
\* the daily-menu phrase followed by that weekday and no exclusion phrase is
\* accepted by the classifier of the per-step item extraction exactly as it
\* is by the classifier of the step visibility check.
C11_SameWeekdayAcceptance ==
  Logged("classify") /\ Logged("extract") =>
    \A k \in WeekdayElementsOf[doc] :
      k \in AcceptedViewportOf[doc] <=> k \in AcceptedInfoOf[doc]

\* every item the batch holds: those of the results delivered so far, those
\* of the current run's step list and of its menuData
ReportedItems ==
  UNION {{results[i].menuData.items[k] : k \in 1..Len(results[i].menuData.items)} :
           i \in {j \in 1..Len(results) : "items" \in DOMAIN results[j].menuData}}
RunItems ==
  {run.allDailyMenuItems[k] : k \in 1..Len(run.allDailyMenuItems)}
  \cup {run.menuData[k] : k \in 1..Len(run.menuData)}

\* C12: every item in the item list of any site result has a cleaned name
\* longer than 3 characters that does not contain the currency symbol,
\* whichever path (per-step extraction or fallback) produced it.
C12_ValidNames ==
  /\ \A i \in 1..Len(results) :
       "items" \in DOMAIN results[i].menuData =>
         \A k \in 1..Len(results[i].menuData.items) :
           /\ Len(results[i].menuData.items[k].name) > 3
           /\ \A c \in 1..Len(results[i].menuData.items[k].name) :
                results[i].menuData.items[k].name[c] # "EUR"
  /\ \A k \in 1..Len(run.allDailyMenuItems) :
       /\ Len(run.allDailyMenuItems[k].name) > 3
       /\ \A c \in 1..Len(run.allDailyMenuItems[k].name) :
            run.allDailyMenuItems[k].name[c] # "EUR"
  /\ \A k \in 1..Len(run.menuData) :
       /\ Len(run.menuData[k].name) > 3
       /\ \A c \in 1..Len(run.menuData[k].name) : run.menuData[k].name[c] # "EUR"

\* the fallback pass ran on a section with three priced children, one with
\* a three-letter name and one with the currency symbol in its name, and
\* reported the third only
C12_Witness ==
  /\ RunSucceeded
  /\ doc = "short"
  /\ Logged("fallback")
  /\ Len(visibleLis(doc, SectionFallbackOf[doc], scrollPos)) = 3
  /\ Len(run.siteData.menuData) = 1
  /\ run.siteData.menuData[1].name = <<"K","a'","v","a">>

\* price matches ^(od )?\d+,\d{2} EUR$
MatchesPriceFormat(price) ==
  LET q == IF Len(price) >= 3 /\ SubSeq(price, 1, 3) = <<"o","d"," ">>
           THEN SubSeq(price, 4, Len(price)) ELSE price
      n == Len(q)
  IN  /\ n >= 6
      /\ q[n] = "EUR"
      /\ q[n - 1] = " "
      /\ q[n - 2] \in Digits
      /\ q[n - 3] \in Digits
      /\ q[n - 4] = ","
      /\ \A k \in 1..(n - 5) : q[k] \in Digits

\* C13: every emitted item price that is not "N/A" matches
\* ^(od )?\d+,\d{2} EUR$: digits, a comma, exactly two decimal digits, one
\* space and the currency symbol, optionally prefixed by "od ".
C13_PriceFormat ==
  \A item \in ReportedItems \cup RunItems :
    item.price # <<"N","/","A">> => MatchesPriceFormat(item.price)

\* the texts of the list children the item extraction of step s (1-based)
\* of the current run parsed
ParsedTextsAtStep(s) ==
  IF SectionViewportOf[doc] = 0 THEN {}
  ELSE LET lis == visibleLis(doc, SectionViewportOf[doc],
                             scrollTo(doc, (s - 1) * ViewportHeight))
       IN  {lis[k].text : k \in 1..Len(lis)}

\* C14: the item parser invoked at a sampling step turns the child text
\* "Soup 1: Goulash 3,50 EUR with bread" into an item with name "Goulash",
\* price "3,50 EUR" and description "with bread".
C14_ScenarioA ==
  \A s \in 1..Len(hist.stepItems) :
    LiGoulash \in ParsedTextsAtStep(s) =>
      \E k \in 1..Len(hist.stepItems[s]) :
        /\ hist.stepItems[s][k].name = <<"G","o","u","l","a","s","h">>
        /\ hist.stepItems[s][k].price = <<"3",",","5","0"," ","EUR">>
        /\ hist.stepItems[s][k].description = <<"w","i","t","h"," ","b","r","e","a","d">>

\* C15: the item parser invoked at a sampling step turns the child text
\* "Schnitzel od 5,20 EUR" into an item with name "Schnitzel", price
\* "od 5,20 EUR" and description "Daily menu item": the qualifier leaves the
\* name, stays in the price, and the empty description gets the placeholder.
C15_ScenarioB ==
  \A s \in 1..Len(hist.stepItems) :
    LiSchnitzel \in ParsedTextsAtStep(s) =>
      /\ \E k \in 1..Len(hist.stepItems[s]) :
           /\ hist.stepItems[s][k].name = <<"S","c","h","n","i","t","z","e","l">>
           /\ hist.stepItems[s][k].price = <<"o","d"," ","5",",","2","0"," ","EUR">>
           /\ hist.stepItems[s][k].description =
                <<"D","a","i","l","y"," ","m","e","n","u"," ","i","t","e","m">>
      /\ \A k \in 1..Len(hist.stepItems[s]) :
           hist.stepItems[s][k].price = <<"o","d"," ","5",",","2","0"," ","EUR">> =>
             hist.stepItems[s][k].name = <<"S","c","h","n","i","t","z","e","l">>

\* a step of a successful run parsed the child "Schnitzel od 5,20 EUR"
C15_Witness ==
  /\ RunSucceeded
  /\ doc = "menuTall"
  /\ Len(hist.stepItems) = 3
  /\ LiSchnitzel \in ParsedTextsAtStep(2)
  /\ \E k \in 1..Len(run.siteData.menuData) :
       run.siteData.menuData[k].name = <<"S","c","h","n","i","t","z","e","l">>

\* item records a source step that is an integer in 1..n
HasSourceStep(item, n) ==
  /\ "viewport" \in DOMAIN item
  /\ "number" \in DOMAIN item.viewport
  /\ item.viewport.number \in 1..n

\* C16: every item in any site result records its source step as an integer
\* in 1..N, N being the number of steps sampled in that run, whichever path
\* (per-step extraction or fallback) produced the item.
C16_SourceStep ==
  /\ \A item \in ReportedItems : HasSourceStep(item, MaxSteps)
  /\ pc = "return" =>
       \A k \in 1..Len(run.menuData) :
         HasSourceStep(run.menuData[k], Len(hist.stepItems))

\* the elements of each document the callback of the fallback pass holds of
AcceptedFallbackOf ==
  [d \in PageIds |->
     {k \in 1..Len(Pages[d].els) : findCallbackFallback(textContent(Pages[d].els[k]))}]

\* item was parsed from a list child of an accepted element of the document:
\* it is marked as coming from the daily-menu section and its name is part
\* of the text of such a child
FromDailyMenuSection(item) ==
  /\ "source" \in DOMAIN item
  /\ item.source = "daily-menu-section"
  /\ \E e \in AcceptedViewportOf[doc] \cup AcceptedFallbackOf[doc] :
       \E i \in 1..Len(Pages[doc].els[e].lis) :
         includes(Pages[doc].els[e].lis[i].text, item.name)

\* C17: every item in the item list of a successful site result was parsed
\* from a visible list child of an element accepted by the daily-menu
\* classifier, including when the fallback extraction itself fails.
C17_OnlyFromSection ==
  RunSucceeded =>
    \A k \in 1..Len(run.siteData.menuData) :
      FromDailyMenuSection(run.siteData.menuData[k])

\* C18: a page session is used by exactly one site run: the session that
\* served site k is never used for site k+1, and it is closed when the run
\* of site k ends, whatever the outcome of that run.
C18_SessionPerRun ==
  /\ \A k \in 1..(Len(pageUse.served) - 1) :
       pageUse.served[k] # null => pageUse.served[k + 1] # pageUse.served[k]
  /\ \A k \in 1..Len(results) :
       pageUse.served[k] # null => pageUse.served[k] \in pageUse.closed

\* the embeds of the messages, and the three status classes of an embed
Embeds == [i \in 1..Len(messages) |-> messages[i].embeds[1]]
IsMenu(e) == "fields" \in DOMAIN e
IsNoMenu(e) ==
  /\ "fields" \notin DOMAIN e
  /\ "url" \in DOMAIN e
  /\ e.description = "No daily menu available today"
IsErrors(e) ==
  /\ "url" \notin DOMAIN e
  /\ e.title = <<"red circle", "Scraping Errors">>

\* the number of entries of a sequence that satisfy a test
CountMenu(n) == Cardinality({i \in 1..Len(messages) : IsMenu(Embeds[i]) /\ Embeds[i].title[2] = n})
CountNoMenu(n) == Cardinality({i \in 1..Len(messages) : IsNoMenu(Embeds[i]) /\ Embeds[i].title[2] = n})
ErrorLines ==
  UNION {{<<i, j>> : j \in 1..Len(Embeds[i].description)} :
           i \in {k \in 1..Len(messages) : IsErrors(Embeds[k])}}
CountErrorLines(n) ==
  Cardinality({l \in ErrorLines : Embeds[l[1]].description[l[2]][2] = n})

\* the results of the batch named n: those with items, those successful
\* without items, those failed
WithItems(n) ==
  {i \in 1..Len(results) : results[i].name = n /\ results[i].success
                            /\ results[i].menuData.items # <<>>}
WithoutItems(n) ==
  {i \in 1..Len(results) : results[i].name = n /\ results[i].success
                            /\ results[i].menuData.items = <<>>}
Failed(n) == {i \in 1..Len(results) : results[i].name = n /\ ~results[i].success}

\* C19: formatForDiscord reports each site result of a batch in exactly one
\* status class: a successful result with items as a menu message, a
\* successful result without items as exactly one "No daily menu available
\* today" message, a failed result as one line of the single "Scraping
\* Errors" message; no site is reported in two classes or omitted.
C19_OneStatusClass ==
  pc = "formatted" =>
    /\ Cardinality({i \in 1..Len(messages) : IsErrors(Embeds[i])}) <= 1
    /\ \A n \in {results[i].name : i \in 1..Len(results)} :
         /\ CountNoMenu(n) = Cardinality(WithoutItems(n))
         /\ CountMenu(n) >= Cardinality(WithItems(n))
         /\ WithItems(n) = {} => CountMenu(n) = 0
         /\ CountErrorLines(n) = Cardinality(Failed(n))

\* a batch of a site with items and a site that failed was formatted as one
\* menu message followed by the error summary with one line
C19_Witness ==
  /\ pc = "formatted"
  /\ Len(results) = 2
  /\ results[1].success /\ results[1].menuData.items # <<>>
  /\ ~results[2].success
  /\ Len(messages) = 2
  /\ IsMenu(Embeds[1])
  /\ IsErrors(Embeds[2])
  /\ Len(Embeds[2].description) = 1

\* C20: within every sampling step the operations occur in the order scroll
\* to the step offset, settle wait, screenshot, section classification, item
\* parsing; the screenshot of step i is captured and recorded before any
\* classification or parsing of step i, and all operations of step i
\* precede the scroll of step i+1.
C20_StepOrder ==
  /\ \A i \in 1..Len(hist.log) :
       /\ hist.log[i].op = "screenshot" /\ hist.log[i].arg > 0 =>
            /\ i > 1
            /\ hist.log[i - 1] = [op |-> "scrollTo",
                                   arg |-> (hist.log[i].arg - 1) * ViewportHeight]
            /\ (i - 1) \in hist.waits
       /\ hist.log[i].op = "classify" =>
            /\ i > 1
            /\ hist.log[i - 1].op = "screenshot"
            /\ hist.log[i - 1].arg > 0
            /\ <<site.name, hist.log[i - 1].arg>> \in
                 {run.screenshots[k] : k \in 1..Len(run.screenshots)}
       /\ hist.log[i].op = "extract" =>
            i > 1 /\ hist.log[i - 1].op = "classify"
       /\ hist.log[i].op = "scrollTo" /\ i > 1 =>
            /\ hist.log[i - 1].op # "classify"
            /\ ~(hist.log[i - 1].op = "screenshot" /\ hist.log[i - 1].arg > 0)
  /\ Len(hist.stepItems) =
       Len(SelectSeq(hist.log, LAMBDA e : e.op = "extract"))
  /\ pc \in {"stepInfo", "stepExtract"} =>
       /\ run.screenshots # <<>>
       /\ run.screenshots[Len(run.screenshots)] = <<site.name, run.step + 1>>

\* three steps were sampled one after the other
C20_Witness ==
  /\ pc = "scrollTop"
  /\ Len(hist.stepItems) = 3
  /\ [k \in 1..Len(hist.log) |-> hist.log[k].op] =
       <<"goto", "scrollTo",
         "scrollTo", "screenshot", "classify", "extract",
         "scrollTo", "screenshot", "classify", "extract",
         "scrollTo", "screenshot", "classify", "extract">>

\* what the visibility check of step s (1-based) of the current run returned
StepInfoOf ==
  [d \in PageIds |->
     [s \in 1..MaxSteps |-> dailyMenuInfo(d, scrollTo(d, (s - 1) * ViewportHeight), s)]]
InfoAtStep(s) == StepInfoOf[doc][s]

\* C21: item parsing is attempted at every sampled step, also at a step whose
\* visibility check found no section or found it outside the viewport: each
\* visibility check is directly followed by the item extraction of the step.
C21_ParsingEveryStep ==
  /\ pc # "stepSkipped"
  /\ \A i \in 1..Len(hist.log) :
       hist.log[i].op = "classify" =>
         IF i < Len(hist.log) THEN hist.log[i + 1].op = "extract"
         ELSE pc = "stepExtract" \/ run.error # ""
  /\ Len(hist.stepItems) =
       Cardinality({i \in 1..Len(hist.log) : hist.log[i].op = "extract"})
  /\ pc \in {"scrollTop", "fullScreenshot", "fallback", "return"} =>
       Len(hist.stepItems) =
         Cardinality({i \in 1..Len(hist.log) : hist.log[i].op = "classify"})

\* the third step of a run saw the section above the viewport (not visible),
\* and its item extraction still gave an item
C21_Witness ==
  /\ RunSucceeded
  /\ doc = "menuTall"
  /\ Len(hist.stepItems) = 3
  /\ ~InfoAtStep(3).visible
  /\ hist.stepItems[3] # <<>>

\* C22: each classifier returns the first element in document order among
\* the candidates (section, div, article, main, region-role elements) that
\* passes exclusion and inclusion: no later qualifying element is ever chosen
\* over an earlier qualifying one.
C22_FirstInDocumentOrder ==
  \A i \in 1..Len(hist.log) :
    /\ hist.log[i].op = "classify" =>
         hist.log[i].arg = Leftmost(AcceptedInfoOf[doc])
    /\ hist.log[i].op = "extract" =>
         hist.log[i].arg = Leftmost(AcceptedViewportOf[doc])
    /\ hist.log[i].op = "fallback" =>
         hist.log[i].arg = Leftmost(AcceptedFallbackOf[doc])

\* the steps (1-based) of the current run whose visibility check found the
\* matched section in the viewport
VisibleSteps == {s \in 1..Len(hist.stepItems) : InfoAtStep(s).visible}

\* C23: after the step loop the best viewport is empty if no step had a
\* visible matched section; otherwise it names the step with the greatest
\* visible-item count among the steps with a visible matched section, the
\* earliest such step on a tie, with the scroll offset of that step.
C23_BestViewport ==
  pc \in {"scrollTop", "fullScreenshot", "fallback", "return"} =>
    IF VisibleSteps = {} THEN bestDailyMenuViewport = null
    ELSE /\ bestDailyMenuViewport # null
         /\ bestDailyMenuViewport.stepNumber \in VisibleSteps
         /\ bestDailyMenuViewport.visibleItems =
              InfoAtStep(bestDailyMenuViewport.stepNumber).visibleItems
         /\ bestDailyMenuViewport.scrollY =
              (bestDailyMenuViewport.stepNumber - 1) * ViewportHeight
         /\ \A t \in VisibleSteps :
              /\ InfoAtStep(t).visibleItems <= bestDailyMenuViewport.visibleItems
              /\ InfoAtStep(t).visibleItems = bestDailyMenuViewport.visibleItems
                   => t >= bestDailyMenuViewport.stepNumber

\* two steps saw the section with one visible item each: the first is kept
C23_Witness ==
  /\ pc = "scrollTop"
  /\ VisibleSteps = {1, 2}
  /\ InfoAtStep(1).visibleItems = 1
  /\ InfoAtStep(2).visibleItems = 1
  /\ bestDailyMenuViewport.stepNumber = 1

\* the second step saw more items of the section than the first: it is kept
C23_WitnessLaterStep ==
  /\ pc = "scrollTop"
  /\ VisibleSteps = {1, 2}
  /\ InfoAtStep(1).visibleItems < InfoAtStep(2).visibleItems
  /\ bestDailyMenuViewport.stepNumber = 2
  /\ bestDailyMenuViewport.scrollY = ViewportHeight

\* the stabilization of the run is past its challenge handling
PastChallenge == pc = "cookies"

\* C24: in a site run the original navigation is issued again exactly once
\* if a challenge phrase was detected on the freshly navigated page, never if
\* none was detected, and never more than twice in total.
C24_RenavigationOnce ==
  /\ hist.navs <= 2
  /\ PastChallenge /\ hist.challenge = "detected" => hist.navs = 2
  /\ PastChallenge /\ hist.challenge = "clear" => hist.navs = 1

\* C25: the re-check after the settle interval tests the same phrases, in
\* title and body, as the detection: when a challenge was detected and
\* handleCloudflareProtection answered "not protected any more" (no second
\* navigation follows), the settled page shows no challenge phrase.
C25_SameRecheck ==
  pc = "cookies" /\ hist.challenge = "detected" /\ hist.navs = 1 =>
    ~CloudflareDetectedOf[doc]

\* C26: consent dismissal clicks at most one control per site run: the first
\* visible selector of the list is clicked and no later one is tried, and
\* the dialog/modal/popup fallback is tried only when none was clicked.
C26_AtMostOneClick == hist.clicks <= 1

\* the run failed after its initial navigation had succeeded
FailedAfterNavigation ==
  pc = "catch" /\ run.error \notin {"NavigationTimeout", "TypeError"}

\* the run failed between its initial navigation and the sampling phase: in
\* the selector wait, or while the challenge handling was still going on
FailedInStabilization ==
  FailedAfterNavigation /\ (run.error = "TimeoutError" \/ hist.challenge # "none")

\* C27 as stated: once the initial navigation has succeeded the site run
\* always proceeds to sampling.
C27_AlwaysSampling == ~FailedInStabilization

\* C27 amended: an unresolved challenge, a failed re-navigation, a consent
\* click that throws or matches nothing and a custom script that throws are
\* recovered locally and none of them ends the run: a run fails between its
\* initial navigation and the sampling phase only when the selector wait of
\* the site times out or the page is lost during the verification wait.
C27_RecoveredLocally ==
  /\ pc \in {"cookies", "script", "waitForSelector", "preScroll", "measure"} =>
       run.error = ""
  /\ FailedInStabilization =>
       \/ run.error = "TimeoutError" /\ site.waitForSelector
       \/ run.error = "TargetClosed" /\ hist.challenge = "detected" /\ hist.navs = 1
  /\ pc = "catch" /\ hist.script = "threw" =>
       run.error \in {"TimeoutError", "TargetClosed"}

\* the challenge was still there after the second navigation, two consent
\* clicks were issued (so one threw), the custom script threw, and the run is
\* at the first statement of the sampling phase
C27_Witness ==
  /\ pc = "measure"
  /\ doc = "challenge"
  /\ hist.navs = 2
  /\ hist.clicks = 2
  /\ hist.script = "threw"
  /\ run.error = ""

\* the fields of the items that both extraction passes fill from the page
CoreFields(items) ==
  [k \in 1..Len(items) |->
     [name |-> items[k].name, price |-> items[k].price,
      description |-> items[k].description, category |-> items[k].category]]

\* C28: the fallback pass and the per-step pass are the same function of the
\* page: at the scroll position where the fallback pass ran, the per-step
\* pass selects the same section and yields items with the same names,
\* prices, descriptions and categories.
C28_SamePass ==
  pc = "return" /\ Logged("fallback") =>
    /\ SectionFallbackOf[doc] = SectionViewportOf[doc]
    /\ CoreFields(run.menuData) =
         CoreFields(extractItemsFromCurrentViewport(doc, scrollPos, 1))

\* C29: the synthetic scroll pass terminates for every page, also for a
\* page whose height grows as it is scrolled: the run gets from the pass to
\* the first statement of the sampling phase.
C29_ScrollPassTerminates == <>(pc = "measure")


\* C30: a message the webhook answers with HTTP 429 is sent again, after the
\* retry-after interval, before any later message is sent, and it is not
\* given up; the messages that are delivered are delivered in list order.
Delivered == SelectSeq(notifier.posts, LAMBDA post : post.answer = [status |-> 204, headers |-> NoHeaders])
C30_RetryAfter429 ==
  /\ \A j \in 1..Len(notifier.posts) :
       "status" \in DOMAIN notifier.posts[j].answer /\ notifier.posts[j].answer.status = 429 =>
         /\ notifier.posts[j].delay =
              (IF "retryAfter" \in DOMAIN notifier.posts[j].answer.headers
               THEN notifier.posts[j].answer.headers.retryAfter ELSE 5) * 1000
         /\ j < Len(notifier.posts) => notifier.posts[j + 1].message = notifier.posts[j].message
         /\ pc = "sending" /\ j = Len(notifier.posts) => notifier.i = notifier.posts[j].message
  /\ \A j, k \in 1..Len(Delivered) : j < k => Delivered[j].message < Delivered[k].message


\* the answer of the webhook that sendMessage takes as a success
Accepted(post) == post.answer = [status |-> 204, headers |-> NoHeaders]

\* C31: sendMenuUpdates deletes the screenshots only if every send attempt
\* of the call succeeded: after a failed attempt the clean-up is never
\* called, a call whose attempts all succeeded ends with the clean-up, and
\* with an empty list nothing is posted and nothing is deleted.
C31_CleanupOnlyAfterSuccess ==
  /\ notifier.cleaned =>
       /\ pc = "notified"
       /\ Len(notifier.posts) = Len(messages)
       /\ \A j \in 1..Len(notifier.posts) : Accepted(notifier.posts[j])
  /\ pc = "notified" /\ Len(messages) > 0
       /\ (\A j \in 1..Len(notifier.posts) : Accepted(notifier.posts[j]))
       => notifier.cleaned
  /\ Len(messages) = 0 => notifier.posts = <<>> /\ ~notifier.cleaned

\* a call that posted three messages, had the second refused, and ended
\* without the clean-up
C31_Witness ==
  /\ pc = "notified"
  /\ Len(notifier.posts) = 3
  /\ Accepted(notifier.posts[1])
  /\ ~Accepted(notifier.posts[2])
  /\ Accepted(notifier.posts[3])
  /\ ~notifier.cleaned

\* a call that had its two messages accepted and ended with the clean-up
C31_WitnessCleaned ==
  /\ pc = "notified"
  /\ Len(notifier.posts) = 2
  /\ notifier.cleaned


\* a site run is in progress: from its first statement to the push of its record
InRun == siteIdx >= 1 /\ pc \notin {"loop", "done", "formatted", "closed"}

\* the positions in the log of the visibility checks of the current run
Classified == {i \in 1..Len(hist.log) : hist.log[i].op = "classify"}

\* C32: the best viewport does not leak between site runs: a run begins with
\* it empty and it stays empty until the first visibility check of the run,
\* and whenever it is set during a run it is what a visibility check of
\* that run, on the document of that run, recorded.
C32_NoLeak ==
  InRun =>
    /\ Classified = {} => bestDailyMenuViewport = null
    /\ bestDailyMenuViewport # null =>
         /\ bestDailyMenuViewport.stepNumber <= Cardinality(Classified)
         /\ InfoAtStep(bestDailyMenuViewport.stepNumber).visible
         /\ bestDailyMenuViewport.visibleItems =
              InfoAtStep(bestDailyMenuViewport.stepNumber).visibleItems
         /\ bestDailyMenuViewport.scrollY =
              (bestDailyMenuViewport.stepNumber - 1) * ViewportHeight

\* the second site's run is at its first statement, with the first site's
\* document still loaded: the first run succeeded on a page whose second
\* step saw the section (so it ended with a best viewport, by C23), and
\* the best viewport is empty
C32_Witness ==
  /\ pc = "goto"
  /\ siteIdx = 2
  /\ Len(results) = 1
  /\ results[1].success
  /\ doc \in PageIds
  /\ StepInfoOf[doc][2].visible
  /\ bestDailyMenuViewport = null

\* the same after a first run that failed
C32_WitnessAfterFailure ==
  /\ pc = "fallback"
  /\ siteIdx = 2
  /\ thrown = {1}
  /\ site.name = "Central Pub"
  /\ bestDailyMenuViewport = null


\* C33: at every sampled step the visibility check and the item extraction
\* of the step select the same element, on every page that has an element
\* both classifiers accept.
C33_SameElement ==
  \A i \in 1..Len(hist.log) - 1 :
    /\ hist.log[i].op = "classify"
    /\ hist.log[i + 1].op = "extract"
    /\ AcceptedInfoOf[doc] \cap AcceptedViewportOf[doc] # {}
    => hist.log[i].arg = hist.log[i + 1].arg


\* the selector wait of the current run timed out
SelectorTimedOut == run.error = "TimeoutError"

\* C34: when the wait-selector of a site does not appear within its timeout
\* the run ends with success = false before any sampling step: no step
\* screenshot and no full-page screenshot is taken, no item is extracted,
\* and the record pushed for the site is a failure without items.
C34_SelectorTimeoutEndsRun ==
  /\ SelectorTimedOut =>
       /\ site.waitForSelector
       /\ pc \in {"catch", "push"}
       /\ run.screenshots = <<>>
       /\ run.allDailyMenuItems = <<>>
       /\ run.menuData = null
       /\ hist.stepItems = <<>>
       /\ \A i \in 1..Len(hist.log) :
            hist.log[i].op \notin {"screenshot", "classify", "extract", "fallback"}
       /\ pc = "push" => ~run.siteData.success /\ run.siteData.error = "TimeoutError"
  /\ \A k \in 1..Len(results) :
       "error" \in DOMAIN results[k] /\ results[k].error = "TimeoutError" =>
         /\ ~results[k].success
         /\ sites[k].waitForSelector
         /\ "items" \notin DOMAIN results[k].menuData
         /\ "screenshotPath" \notin DOMAIN results[k]

\* the run of a site with a wait-selector, on a page that has a daily menu,
\* ended as a failure on the timeout of the selector wait
C34_Witness ==
  /\ pc = "push"
  /\ SelectorTimedOut
  /\ doc = "menu"
  /\ ~run.siteData.success


\* the calls of runScrapingJob that are past the check of the flag and have
\* not returned
InProgress ==
  {k \in 1..Len(scheduler.jobs) : scheduler.jobs[k].at \notin {"skipped", "returned"}}

\* a call of runScrapingJob is made in this step
Triggered == Len(scheduler.jobs') = Len(scheduler.jobs) + 1

\* C35: at most one scraping job is in progress at any time, and a call of
\* runScrapingJob made while a job is in progress returns at once: it
\* changes nothing but the record of the calls (no scrape, no message, the
\* flag as it was, the job in progress where it was).
C35_OneJobAtATime ==
  [][/\ Cardinality(InProgress') <= 1
     /\ Triggered /\ InProgress # {} =>
          scheduler' = [scheduler EXCEPT !.jobs = Append(@, Job("skipped", ""))]]_vars

\* a job is waiting for sendMenuUpdates and the two calls made since it
\* began were skipped
C35_Witness ==
  /\ Len(scheduler.jobs) = 3
  /\ scheduler.jobs[1].at = "sendMenuUpdates"
  /\ scheduler.jobs[2].at = "skipped"
  /\ scheduler.jobs[3].at = "skipped"
  /\ scheduler.isJobRunning

\* C36: the job-running flag is always released: it is set only while a job
\* is in progress, whichever way the jobs before ended, and a call of
\* runScrapingJob made when no job is in progress is never skipped.
C36_FlagReleased ==
  /\ [](alreadyRunning(scheduler) => InProgress # {})
  /\ [][Triggered /\ InProgress = {} =>
          scheduler'.jobs[Len(scheduler'.jobs)].at = "scrapeAllSites"]_vars

\* three jobs ran one after the other: the first found no enabled site, the
\* second ended in the catch block, the third went through; the flag is false
C36_Witness ==
  /\ Len(scheduler.jobs) = 3
  /\ scheduler.jobs[1] = Job("returned", "empty")
  /\ scheduler.jobs[2] = Job("returned", "error")
  /\ scheduler.jobs[3] = Job("returned", "completed")
  /\ "isJobRunning" \in DOMAIN scheduler
  /\ ~scheduler.isJobRunning

\* C37: after any sequence of start, stop and shutdown, isRunning is true
\* exactly when a scheduled task exists: the started tasks are the one in
\* this.scheduledTask or none, a start on a running scheduler makes no
\* second task, and a start that throws on an invalid cron expression
\* leaves the scheduler stopped without a task.
C37_RunningIffTask ==
  /\ scheduler.isRunning <=> scheduler.scheduledTask # null
  /\ scheduler.live = IF scheduler.isRunning THEN {scheduler.scheduledTask} ELSE {}
  /\ scheduler.lastCall = "start refused" =>
       scheduler.isRunning /\ Cardinality(scheduler.live) = 1
  /\ scheduler.lastCall = "start threw" =>
       ~scheduler.isRunning /\ scheduler.scheduledTask = null /\ scheduler.live = {}
  /\ scheduler.lastCall \in {"stopped", "shutdown"} => ~scheduler.isRunning

\* the scheduler was started, stopped and started again, and a further
\* start was refused: the second task is the only one
C37_Witness ==
  /\ scheduler.lastCall = "start refused"
  /\ scheduler.created = 2
  /\ scheduler.live = {Task(2)}

\* a start threw on the cron expression
C37_WitnessInvalid ==
  /\ scheduler.lastCall = "start threw"
  /\ ~scheduler.isRunning


ItemsOfMessage(m) ==
  Concat([f \in 1..Len(messages[m].embeds[1].fields) |->
            messages[m].embeds[1].fields[f].items])
ItemsOfMessages == Concat([m \in 1..Len(messages) |-> ItemsOfMessage(m)])

\* how often x occurs in the sequence
Occurrences(seq, x) == Cardinality({i \in 1..Len(seq) : seq[i] = x})

\* formatSiteMenu returned more than one message for the site
WasSplit == pc = "formatted" /\ Len(results) = 1 /\ Len(messages) > 1

\* C39: when formatSiteMenu splits the items of a site across several
\* messages, every item of the site is in exactly one field of exactly one
\* returned message (none lost, none repeated), and no returned message has
\* an empty field list.
C39_SplitKeepsItems ==
  WasSplit =>
    /\ \A k \in 1..Len(results[1].menuData.items) :
         Occurrences(ItemsOfMessages, results[1].menuData.items[k]) =
           Occurrences(results[1].menuData.items, results[1].menuData.items[k])
    /\ \A m \in 1..Len(messages) : messages[m].embeds[1].fields # <<>>

\* the part that holds: no returned message has an empty field list
C39_NoEmptyMessage ==
  WasSplit => \A m \in 1..Len(messages) : messages[m].embeds[1].fields # <<>>

\* an item of the site is in no returned message
C39_ItemLost ==
  /\ WasSplit
  /\ \E k \in 1..Len(results[1].menuData.items) :
       Occurrences(ItemsOfMessages, results[1].menuData.items[k]) = 0

=============================================================================
